---- MODULE Spec2Model ----
(***************************************************************************)
(* SystemX router: the second SystemXRouter of src/src/router.ts (the one   *)
(* with wake-on-ring), its ConnectionRegistry (src/unnamed/part_001) and    *)
(* CallManager (src/demo-broadcast-listener.ts), driven by the WebSocket    *)
(* server loop of src/src/wake.ts.                                          *)
(*                                                                         *)
(* Every handler runs to completion on the single JS thread, so one action *)
(* is one handler.  A handler body is written as a function from a state   *)
(* record to a state record, so that the calls it makes compose in the     *)
(* order of the source; the record's field sent lists the frames the       *)
(* handler passed to transport.send.                                       *)
(***************************************************************************)
EXTENDS Integers, Sequences, FiniteSets, TLC

\* ------------------------------------------------------------------ bounds
NumConns == 3
MaxCalls == 3
MaxTime == 2
MaxDials == 3

Conns == 1..NumConns
NoConn == 0
NoCall == 0

\* Addresses are strings; a string is its sequence of characters.
NoAddr == << >>
A1 == << "a", "@", "x", ".", "y" >>
A2 == << "b", "@", "x", ".", "y" >>
A3 == << "c", "@", "x", ".", "y" >>
BadAddr == << "a", "@", "x" >>
Addrs == {A1, A2, A3}

PresenceStatus == {"available", "busy", "dnd", "away"}
VALID_STATUSES == PresenceStatus

\* WakeHandlerConfig values a REGISTER may carry
NoHandler == [ type |-> "undefined", url |-> << >>, timeout_seconds |-> 0 ]
Webhook == [ type |-> "webhook", url |-> << "u" >>, timeout_seconds |-> 1 ]
NoUrlHook == [ type |-> "webhook", url |-> << >>, timeout_seconds |-> 1 ]
NoMeta == "undefined"

VARIABLES
    sockets,                    \* per connection: the server's WebSocket
    connections,                \* per connection: the ConnectionContext fields
    connectionsByAddress,       \* ConnectionRegistry.connectionsByAddress
    connectionsBySession,       \* ConnectionRegistry.connectionsBySession (its keys)
    calls,                      \* CallManager.calls
    callTimers,                 \* SystemXRouter.callTimers (its keys)
    ringTimeouts,               \* ring setTimeout handles not yet fired or cleared
    dialCounters,               \* SystemXRouter.dialCounters
    wakeProfiles,               \* SystemXRouter.wakeProfiles
    pendingWakeCallsByAddress,  \* address -> queue of pending call ids
    pendingWakeCallsById,       \* call id -> PendingWakeCall
    wakeTimeouts,               \* wake setTimeout handles not yet fired or cleared
    wakeRuns,                   \* WakeExecutor.wake promises not yet settled
    nextCallId,                 \* randomUUID(): the next fresh id
    clock,                      \* Date.now()
    options,                    \* RouterOptions given to the constructor
    concurrency,                \* per connection: concurrency mode and its caps
    activeCallIds,              \* per connection: the calls it takes part in
    broadcasts,                 \* BroadcastTable: broadcaster address -> session
    sleepTimers,                \* per connection: the idle / pending-warning timer
    peer,                       \* the FederationPeer, its transport and its sockets
    dialLog                     \* per session: the times of its DIAL frames that
                                \* isDialRateLimited let pass, as the client saw them

vars == << sockets, connections, connectionsByAddress, connectionsBySession, calls,
           callTimers, ringTimeouts, dialCounters, wakeProfiles,
           pendingWakeCallsByAddress, pendingWakeCallsById, wakeTimeouts, wakeRuns,
           nextCallId, clock, options,
           concurrency, activeCallIds, broadcasts, sleepTimers, peer, dialLog >>

\* a cap, or a time, that is not set
Unset == -1

\* concurrency single without caps
SingleMode == [ mode |-> "single", max_listeners |-> Unset, max_sessions |-> Unset ]

\* The sockets the FederationPeer's transport opens, numbered in the order of
\* the connect() calls
MaxPeerSockets == 2
PeerSockets == 1..MaxPeerSockets
NoSocket == 0

\* new FederationPeer(config, env): no synthetic connection, no timers, not
\* shutting down; the transport has no socket and is in the state it has before
\* the first connect().  reconnectTimer says that the field holds a handle,
\* reconnects counts the reconnect timeouts armed and neither fired nor
\* cleared, and latestPending says that the one the handle names is among them.
\* ws gives each socket's state as the runtime sees it, settled the sockets
\* whose connect() promise is settled, made the connections the peer has
\* created in the local router, started that start() has been called, beat
\* that a HEARTBEAT of the peer is on its way to the parent, acked that the
\* parent has sent a HEARTBEAT_ACK in the current unit of time, and unbroken
\* that since the socket opened no unit of time has passed without one.
NewFederationPeer ==
    [ state |-> "idle", socket |-> NoSocket, connection |-> NoConn,
      heartbeatTimer |-> FALSE, reconnectTimer |-> FALSE, shuttingDown |-> FALSE,
      reconnects |-> 0, latestPending |-> FALSE, started |-> FALSE, acked |-> FALSE,
      unbroken |-> FALSE, beat |-> FALSE,
      ws |-> [s \in PeerSockets |-> "none"], settled |-> {}, made |-> {} ]

\* ----------------------------------------------------------------- Map helpers
MapPut(m, k, v) == [x \in (DOMAIN m) \cup {k} |-> IF x = k THEN v ELSE m[x]]
MapDelete(m, k) == [x \in (DOMAIN m) \ {k} |-> m[x]]
EmptyMap == [x \in {} |-> 0]

\* --------------------------------------------------------------- isValidAddress
NotSpaceOrAt(ch) == ch # " " /\ ch # "@"

AllOk(s, lo, hi) == \A i \in lo..hi : NotSpaceOrAt(s[i])

\* /^[^\s@]+@[^\s@]+\.[^\s@]+$/ : a@b.c with non-empty a, b, c free of space and @
EMAIL_ADDRESS_REGEX(s) ==
    \E at \in 2..Len(s) : \E dot \in (at + 2)..(Len(s) - 1) :
        /\ s[at] = "@"
        /\ s[dot] = "."
        /\ AllOk(s, 1, at - 1)
        /\ AllOk(s, at + 1, dot - 1)
        /\ AllOk(s, dot + 1, Len(s))

isValidAddress(s) ==
    IF Len(s) = 0 THEN FALSE
    ELSE IF Len(s) > 255 THEN FALSE
    ELSE EMAIL_ADDRESS_REGEX(s)

\* ------------------------------------------------------------ the state record
\* The router's state as one record; sent collects, in order, the frames the
\* handler under way has passed to transport.send, and closed the calls it has
\* made to transport.close.
Cur == [ sockets |-> sockets, conn |-> connections, byAddress |-> connectionsByAddress,
         bySession |-> connectionsBySession, calls |-> calls, callTimers |-> callTimers,
         ringTimeouts |-> ringTimeouts, dialCounters |-> dialCounters,
         wakeProfiles |-> wakeProfiles, pendByAddr |-> pendingWakeCallsByAddress,
         pendById |-> pendingWakeCallsById, wakeTimeouts |-> wakeTimeouts,
         wakeRuns |-> wakeRuns, nextCallId |-> nextCallId, clock |-> clock,
         options |-> options, sent |-> << >>, closed |-> << >> ]

\* ------------------------------------------------------------------- frames
Frame(dest, type) ==
    [ dest |-> dest, type |-> type, reason |-> "-", call_id |-> NoCall,
      from |-> NoAddr, to |-> NoAddr, address |-> NoAddr, metadata |-> NoMeta,
      data |-> "-", content_type |-> "-", context |-> "-", timestamp |-> "-",
      addresses |-> << >> ]

\* transport.send(frame)
Send(r, f) == [r EXCEPT !.sent = Append(@, f)]

sendInvalidPayload(r, c, context) ==
    Send(r, [Frame(c, "ERROR") EXCEPT !.reason = "invalid_payload", !.context = context])

\* ------------------------------------------------------- ConnectionRegistry
\* statusSetBy is a history field, not a field of ConnectionContext: it records
\* whether the last write to status was the client's STATUS frame or the router's.
NewConnection(now) ==
    [ address |-> NoAddr, status |-> "available", statusSetBy |-> "router",
      metadata |-> NoMeta, lastHeartbeat |-> now, activeCallId |-> NoCall,
      autoSleep |-> "undefined", wakeMode |-> "undefined", wakeHandler |-> NoHandler ]

createConnection(r, c) ==
    [r EXCEPT !.conn[c] = NewConnection(r.clock), !.bySession = @ \cup {c}]

getByAddress(r, a) == IF a \in DOMAIN r.byAddress THEN r.byAddress[a] ELSE NoConn

getBySession(r, c) == IF c \in r.bySession THEN c ELSE NoConn

\* registerAddress without the check for another owner
registerAddressUnchecked(r, c, a, metadata) ==
    [ success |-> TRUE,
      r |-> [r EXCEPT !.conn[c].address = a,
                      !.conn[c].metadata = metadata,
                      !.byAddress = MapPut(@, a, c)] ]

\* returns [success, r]
registerAddress(r, c, a, metadata) ==
    LET existing == getByAddress(r, a)
        old == r.conn[c].address
        cleared == IF old # NoAddr /\ old # a /\ getByAddress(r, old) = c
                   THEN MapDelete(r.byAddress, old)
                   ELSE r.byAddress
    IN IF existing # NoConn /\ existing # c
       THEN [ success |-> FALSE, r |-> r ]
       ELSE [ success |-> TRUE,
              r |-> [r EXCEPT !.conn[c].address = a,
                              !.conn[c].metadata = metadata,
                              !.byAddress = MapPut(cleared, a, c)] ]

updateHeartbeat(r, c) == [r EXCEPT !.conn[c].lastHeartbeat = r.clock]

setStatus(r, c, status) ==
    [r EXCEPT !.conn[c].status = status, !.conn[c].statusSetBy = "client"]

registryDisconnect(r, c) ==
    LET a == r.conn[c].address
        m == IF a # NoAddr /\ getByAddress(r, a) = c
             THEN MapDelete(r.byAddress, a)
             ELSE r.byAddress
    IN [r EXCEPT !.byAddress = m, !.bySession = @ \ {c}]

\* ---------------------------------------------------------------- CallManager
createCall(r, caller, callee, metadata, callId) ==
    [r EXCEPT !.calls = MapPut(@, callId,
        [ caller |-> caller, callee |-> callee, metadata |-> metadata,
          state |-> "ringing" ])]

getCall(r, callId) == IF callId \in DOMAIN r.calls THEN callId ELSE NoCall

setConnected(r, callId) ==
    IF callId \notin DOMAIN r.calls THEN r
    ELSE [r EXCEPT !.calls[callId].state = "connected"]

endCall(r, callId) ==
    IF callId \notin DOMAIN r.calls THEN r
    ELSE [r EXCEPT !.calls[callId].state = "ended"]

\* release that leaves the record in the table
releaseNothing(r, callId) == r

release(r, callId) == [r EXCEPT !.calls = MapDelete(@, callId)]

\* ------------------------------------------------------------ ring timers
\* clearCallTimer that leaves the timer armed
clearNoTimer(r, callId) == r

clearCallTimer(r, callId) ==
    IF callId \in r.callTimers
    THEN [r EXCEPT !.callTimers = @ \ {callId}, !.ringTimeouts = @ \ {callId}]
    ELSE r

\* scheduleCallTimeout that arms nothing
scheduleNothing(r, callId) == r

scheduleCallTimeout(r, callId) ==
    LET r1 == clearCallTimer(r, callId)
    IN [r1 EXCEPT !.callTimers = @ \cup {callId}, !.ringTimeouts = @ \cup {callId}]

\* ---------------------------------------------------------------- startCall
startCall(r, caller, callee, metadata, callId) ==
    LET r1 == createCall(r, caller, callee, metadata, callId)
        r2 == [r1 EXCEPT !.conn[caller].activeCallId = callId,
                         !.conn[caller].status = "busy",
                         !.conn[caller].statusSetBy = "router"]
        r3 == [r2 EXCEPT !.conn[callee].activeCallId = callId,
                         !.conn[callee].status = "busy",
                         !.conn[callee].statusSetBy = "router"]
        r4 == scheduleCallTimeout(r3, callId)
    IN Send(r4, [Frame(callee, "RING") EXCEPT !.from = r4.conn[caller].address,
                                               !.call_id = callId,
                                               !.metadata = metadata])

\* ------------------------------------------------------------ wake-on-ring
\* storeWakeProfile that stores nothing
storeNoProfile(r, c) == r

storeWakeProfile(r, c) ==
    IF r.conn[c].address = NoAddr \/ r.conn[c].wakeHandler = NoHandler THEN r
    ELSE [r EXCEPT !.wakeProfiles = MapPut(@, r.conn[c].address, r.conn[c].wakeHandler)]

QueueOf(r, a) == IF a \in DOMAIN r.pendByAddr THEN r.pendByAddr[a] ELSE << >>

\* queue.findIndex(entry.callId === callId) and queue.splice(index, 1)
RECURSIVE Splice(_, _)
Splice(q, callId) ==
    IF q = << >> THEN << >>
    ELSE IF Head(q).callId = callId THEN Tail(q)
    ELSE << Head(q) >> \o Splice(Tail(q), callId)

\* failPendingWakeCall that sends BUSY whether or not the call is still pending
failPendingWakeCallAgain(r, callId, reason) ==
    IF callId \notin DOMAIN r.pendById
    THEN IF callId \in DOMAIN r.calls
         THEN Send(r, [Frame(r.calls[callId].caller, "BUSY") EXCEPT !.reason = reason])
         ELSE r
    ELSE
      LET pending == r.pendById[callId]
          a == pending.calleeAddress
          r1 == [r EXCEPT !.pendById = MapDelete(@, callId),
                          !.pendByAddr = IF Len(Splice(QueueOf(r, a), callId)) = 0
                                         THEN MapDelete(@, a)
                                         ELSE MapPut(@, a, Splice(QueueOf(r, a), callId)),
                          !.wakeTimeouts = @ \ {callId}]
      IN Send(r1, [Frame(pending.caller, "BUSY") EXCEPT !.to = a, !.reason = reason])

failPendingWakeCall(r, callId, reason) ==
    IF callId \notin DOMAIN r.pendById THEN r
    ELSE
      LET pending == r.pendById[callId]
          a == pending.calleeAddress
          r1 == [r EXCEPT !.pendById = MapDelete(@, callId)]
          r2 == IF a \in DOMAIN r1.pendByAddr
                THEN LET q == Splice(r1.pendByAddr[a], callId)
                     IN IF Len(q) = 0
                        THEN [r1 EXCEPT !.pendByAddr = MapDelete(@, a)]
                        ELSE [r1 EXCEPT !.pendByAddr[a] = q]
                ELSE r1
          r3 == [r2 EXCEPT !.wakeTimeouts = @ \ {callId}]
          r4 == IF r3.conn[pending.caller].activeCallId = callId
                THEN [r3 EXCEPT !.conn[pending.caller].activeCallId = NoCall,
                                !.conn[pending.caller].status = "available",
                                !.conn[pending.caller].statusSetBy = "router"]
                ELSE r3
      IN Send(r4, [Frame(pending.caller, "BUSY") EXCEPT !.to = a, !.reason = reason])

\* tryWakeSleepingAgent that arms no wake timer
tryWakeNoTimer(r, caller, to, metadata) ==
    IF to \notin DOMAIN r.wakeProfiles THEN [ woke |-> FALSE, r |-> r ]
    ELSE
      LET callId == r.nextCallId
          pending == [ callId |-> callId, caller |-> caller, calleeAddress |-> to,
                       metadata |-> metadata, wakeProfile |-> r.wakeProfiles[to] ]
          r1 == [r EXCEPT !.nextCallId = @ + 1,
                          !.pendByAddr = MapPut(@, to, Append(QueueOf(r, to), pending)),
                          !.pendById = MapPut(@, callId, pending)]
          r2 == [r1 EXCEPT !.conn[caller].activeCallId = callId,
                           !.conn[caller].status = "busy",
                           !.conn[caller].statusSetBy = "router",
                           !.wakeRuns = @ \cup {callId}]
      IN [ woke |-> TRUE, r |-> r2 ]

\* returns [woke, r]
tryWakeSleepingAgent(r, caller, to, metadata) ==
    IF to \notin DOMAIN r.wakeProfiles THEN [ woke |-> FALSE, r |-> r ]
    ELSE
      LET callId == r.nextCallId
          pending == [ callId |-> callId, caller |-> caller, calleeAddress |-> to,
                       metadata |-> metadata, wakeProfile |-> r.wakeProfiles[to] ]
          r1 == [r EXCEPT !.nextCallId = @ + 1,
                          !.wakeTimeouts = @ \cup {callId},
                          !.pendByAddr = MapPut(@, to, Append(QueueOf(r, to), pending)),
                          !.pendById = MapPut(@, callId, pending)]
          r2 == [r1 EXCEPT !.conn[caller].activeCallId = callId,
                           !.conn[caller].status = "busy",
                           !.conn[caller].statusSetBy = "router",
                           !.wakeRuns = @ \cup {callId}]
      IN [ woke |-> TRUE, r |-> r2 ]

\* resumePendingWakeCalls that takes the newest entry of the queue
resumeNewestPending(r, callee) ==
    LET a == r.conn[callee].address
    IN IF a = NoAddr THEN r
       ELSE IF Len(QueueOf(r, a)) = 0 THEN r
       ELSE
         LET q == r.pendByAddr[a]
             pending == q[Len(q)]
             rest == SubSeq(q, 1, Len(q) - 1)
             r1 == [r EXCEPT !.pendById = MapDelete(@, pending.callId),
                             !.wakeTimeouts = @ \ {pending.callId},
                             !.pendByAddr = IF Len(rest) = 0 THEN MapDelete(@, a)
                                            ELSE MapPut(@, a, rest)]
         IN IF getBySession(r1, pending.caller) = NoConn THEN r1
            ELSE startCall(r1, pending.caller, callee, pending.metadata, pending.callId)

RECURSIVE resumePendingWakeCalls(_, _)
resumePendingWakeCalls(r, callee) ==
    LET a == r.conn[callee].address
    IN IF a = NoAddr THEN r
       ELSE IF Len(QueueOf(r, a)) = 0 THEN r
       ELSE
         LET pending == Head(r.pendByAddr[a])
             rest == Tail(r.pendByAddr[a])
             r1 == [r EXCEPT !.pendById = MapDelete(@, pending.callId),
                             !.wakeTimeouts = @ \ {pending.callId},
                             !.pendByAddr = IF Len(rest) = 0 THEN MapDelete(@, a)
                                            ELSE MapPut(@, a, rest)]
         IN IF getBySession(r1, pending.caller) = NoConn
            THEN resumePendingWakeCalls(
                     failPendingWakeCall(r1, pending.callId, "caller_unavailable"), callee)
            ELSE startCall(r1, pending.caller, callee, pending.metadata, pending.callId)

\* Array.from(pendingWakeCallsById.values()).filter(caller === connection), in
\* insertion order; ids are handed out in increasing order
RECURSIVE FailAll(_, _, _)
FailAll(r, ids, reason) ==
    IF ids = {} THEN r
    ELSE LET id == CHOOSE x \in ids : \A y \in ids : x <= y
         IN FailAll(failPendingWakeCall(r, id, reason), ids \ {id}, reason)

cancelPendingWakeCallsForCaller(r, c, reason) ==
    FailAll(r, {id \in DOMAIN r.pendById : r.pendById[id].caller = c}, reason)

\* ------------------------------------------------------------ call teardown
\* clearCallState that resets the caller only
clearCallStateCallerOnly(r, callId, call) ==
    LET r1 == clearCallTimer(r, callId)
        r2 == IF r1.conn[call.caller].activeCallId = callId
              THEN [r1 EXCEPT !.conn[call.caller].activeCallId = NoCall,
                              !.conn[call.caller].status = "available",
                              !.conn[call.caller].statusSetBy = "router"]
              ELSE r1
    IN release(r2, callId)

\* call is the CallState object the caller holds
clearCallState(r, callId, call) ==
    LET r1 == clearCallTimer(r, callId)
        r2 == IF r1.conn[call.caller].activeCallId = callId
              THEN [r1 EXCEPT !.conn[call.caller].activeCallId = NoCall,
                              !.conn[call.caller].status = "available",
                              !.conn[call.caller].statusSetBy = "router"]
              ELSE r1
        r3 == IF r2.conn[call.callee].activeCallId = callId
              THEN [r2 EXCEPT !.conn[call.callee].activeCallId = NoCall,
                              !.conn[call.callee].status = "available",
                              !.conn[call.callee].statusSetBy = "router"]
              ELSE r2
        r4 == IF r3.conn[call.callee].address # NoAddr
              THEN resumePendingWakeCalls(r3, call.callee)
              ELSE r3
    IN release(r4, callId)

\* the other party taken to be the sender itself
OtherPartySelf(call, c) == c

OtherParty(call, c) == IF c = call.caller THEN call.callee ELSE call.caller

disconnect(r, c, reason) ==
    LET k == r.conn[c]
        r1 == IF reason = "timeout" /\ k.wakeMode = "wake_on_ring"
                 /\ k.wakeHandler # NoHandler /\ k.address # NoAddr
              THEN storeWakeProfile(r, c)
              ELSE r
        r2 == registryDisconnect(r1, c)
        r3 == [r2 EXCEPT !.dialCounters = MapDelete(@, c)]
        id == r3.conn[c].activeCallId
        r4 == IF id # NoCall /\ getCall(r3, id) # NoCall
              THEN LET call == r3.calls[id]
                       s1 == Send(r3, [Frame(OtherParty(call, c), "HANGUP") EXCEPT
                                          !.call_id = id, !.reason = reason])
                       s2 == clearCallTimer(s1, id)
                       s3 == endCall(s2, id)
                   IN clearCallState(s3, id, call)
              ELSE r3
        r5 == cancelPendingWakeCallsForCaller(r4, c, reason)
    \* transport.close(4000, reason): ws.close on the server's socket
    IN [r5 EXCEPT !.sockets[c] = IF @ = "open" THEN "closing" ELSE @,
                  !.closed = Append(@, [ dest |-> c, code |-> 4000, reason |-> reason ])]

\* ------------------------------------------------------------ frame handlers
\* returns [handler, r]; handler = NoHandler stands for undefined
validateWakeHandler(r, c, handler) ==
    IF handler = NoHandler
    THEN [ handler |-> NoHandler, r |-> sendInvalidPayload(r, c, "REGISTER") ]
    ELSE IF handler.timeout_seconds <= 0
    THEN [ handler |-> NoHandler, r |-> sendInvalidPayload(r, c, "REGISTER") ]
    ELSE IF handler.type = "webhook"
    THEN IF Len(handler.url) = 0
         THEN [ handler |-> NoHandler, r |-> sendInvalidPayload(r, c, "REGISTER") ]
         ELSE [ handler |-> handler, r |-> r ]
    ELSE [ handler |-> NoHandler, r |-> sendInvalidPayload(r, c, "REGISTER") ]

handleRegister(r, c, msg) ==
    IF ~isValidAddress(msg.address)
    THEN Send(r, [Frame(c, "REGISTER_FAILED") EXCEPT !.reason = "invalid_address"])
    ELSE IF msg.mode # "undefined" /\ msg.mode # "wake_on_ring"
    THEN sendInvalidPayload(r, c, "REGISTER")
    ELSE IF msg.mode # "undefined"
            /\ validateWakeHandler(r, c, msg.wake_handler).handler = NoHandler
    THEN validateWakeHandler(r, c, msg.wake_handler).r
    ELSE IF msg.mode = "undefined" /\ msg.wake_handler # NoHandler
    THEN sendInvalidPayload(r, c, "REGISTER")
    ELSE
      LET wakeMode0 == msg.mode
          wakeHandler0 == IF msg.mode # "undefined" THEN msg.wake_handler
                          ELSE r.conn[c].wakeHandler
          reinstate == wakeHandler0 = NoHandler /\ msg.address \in DOMAIN r.wakeProfiles
          wakeMode == IF reinstate THEN "wake_on_ring" ELSE wakeMode0
          wakeHandler == IF reinstate THEN r.wakeProfiles[msg.address] ELSE wakeHandler0
          r1 == IF reinstate
                THEN [r EXCEPT !.wakeProfiles = MapDelete(@, msg.address)]
                ELSE r
          result == registerAddress(r1, c, msg.address, msg.metadata)
      IN IF ~result.success
         THEN Send(result.r, [Frame(c, "REGISTER_FAILED") EXCEPT
                                 !.reason = "address_in_use"])
         ELSE
           LET r2 == IF wakeMode = "wake_on_ring" /\ wakeHandler # NoHandler
                     THEN [result.r EXCEPT !.conn[c].wakeMode = wakeMode,
                                           !.conn[c].wakeHandler = wakeHandler]
                     ELSE [result.r EXCEPT !.conn[c].wakeMode = "undefined",
                                           !.conn[c].wakeHandler = NoHandler]
               r3 == Send(r2, [Frame(c, "REGISTERED") EXCEPT !.address = msg.address])
           IN IF r3.conn[c].address # NoAddr
              THEN resumePendingWakeCalls(r3, c)
              ELSE r3

\* auto_sleep is "undefined", "valid" or "invalid" (a payload failing the type checks)
handleStatus(r, c, msg) ==
    IF msg.status \notin VALID_STATUSES
    THEN sendInvalidPayload(r, c, "STATUS")
    ELSE LET r1 == setStatus(r, c, msg.status)
         IN IF msg.auto_sleep = "undefined" THEN r1
            ELSE IF msg.auto_sleep = "invalid" THEN sendInvalidPayload(r1, c, "STATUS")
            ELSE [r1 EXCEPT !.conn[c].autoSleep = msg.auto_sleep]

handleUnregister(r, c) ==
    LET k == r.conn[c]
        r1 == IF k.wakeMode = "wake_on_ring" /\ k.wakeHandler # NoHandler
                 /\ k.address # NoAddr
              THEN storeWakeProfile(r, c)
              ELSE r
    IN disconnect(r1, c, "client_requested")

\* handleHeartbeat that leaves lastHeartbeat as it is
handleHeartbeatNoUpdate(r, c) ==
    Send(r, [Frame(c, "HEARTBEAT_ACK") EXCEPT !.timestamp = r.conn[c].lastHeartbeat])

handleHeartbeat(r, c) ==
    LET r1 == updateHeartbeat(r, c)
    IN Send(r1, [Frame(c, "HEARTBEAT_ACK") EXCEPT !.timestamp = r1.conn[c].lastHeartbeat])

\* isDialRateLimited that refuses the attempt that reaches the limit
isDialRateLimitedEarly(r, c) ==
    IF r.options.dialMaxAttempts <= 0 THEN [ limited |-> FALSE, r |-> r ]
    ELSE IF c \notin DOMAIN r.dialCounters
    THEN [ limited |-> FALSE,
           r |-> [r EXCEPT !.dialCounters =
                     MapPut(@, c, [ count |-> 1, windowStart |-> r.clock ])] ]
    ELSE IF r.clock - r.dialCounters[c].windowStart > r.options.dialWindowMs
    THEN [ limited |-> FALSE,
           r |-> [r EXCEPT !.dialCounters[c] = [ count |-> 1, windowStart |-> r.clock ]] ]
    ELSE LET r1 == [r EXCEPT !.dialCounters[c].count = @ + 1]
         IN IF r1.dialCounters[c].count >= r.options.dialMaxAttempts
            THEN [ limited |-> TRUE,
                   r |-> Send(r1, [Frame(c, "ERROR") EXCEPT !.reason = "rate_limited",
                                                          !.context = "DIAL"]) ]
            ELSE [ limited |-> FALSE, r |-> r1 ]

\* returns [limited, r]
isDialRateLimited(r, c) ==
    IF r.options.dialMaxAttempts <= 0 THEN [ limited |-> FALSE, r |-> r ]
    ELSE IF c \notin DOMAIN r.dialCounters
    THEN [ limited |-> FALSE,
           r |-> [r EXCEPT !.dialCounters =
                     MapPut(@, c, [ count |-> 1, windowStart |-> r.clock ])] ]
    ELSE IF r.clock - r.dialCounters[c].windowStart > r.options.dialWindowMs
    THEN [ limited |-> FALSE,
           r |-> [r EXCEPT !.dialCounters[c] = [ count |-> 1, windowStart |-> r.clock ]] ]
    ELSE LET r1 == [r EXCEPT !.dialCounters[c].count = @ + 1]
         IN IF r1.dialCounters[c].count > r.options.dialMaxAttempts
            THEN [ limited |-> TRUE,
                   r |-> Send(r1, [Frame(c, "ERROR") EXCEPT !.reason = "rate_limited",
                                                          !.context = "DIAL"]) ]
            ELSE [ limited |-> FALSE, r |-> r1 ]

\* Busy that always gives the reason busy
BusyAlwaysBusy(r, c, to, reason) ==
    Send(r, [Frame(c, "BUSY") EXCEPT !.to = to, !.reason = "busy"])

Busy(r, c, to, reason) ==
    Send(r, [Frame(c, "BUSY") EXCEPT !.to = to, !.reason = reason])

handleDial(r, c, msg) ==
    IF Len(msg.to) = 0 THEN sendInvalidPayload(r, c, "DIAL")
    ELSE
      LET lim == isDialRateLimited(r, c)
          r1 == lim.r
          caller == c
          callee == getByAddress(r1, msg.to)
      IN IF lim.limited THEN r1
         ELSE IF r1.conn[caller].address = NoAddr THEN r1
         ELSE IF callee = NoConn
         THEN LET w == tryWakeSleepingAgent(r1, caller, msg.to, msg.metadata)
              IN IF w.woke THEN w.r ELSE Busy(r1, caller, msg.to, "no_such_address")
         ELSE IF callee = caller THEN Busy(r1, caller, msg.to, "already_in_call")
         ELSE IF r1.conn[callee].activeCallId # NoCall
         THEN Busy(r1, caller, msg.to, "already_in_call")
         ELSE IF r1.conn[callee].status = "dnd" THEN Busy(r1, caller, msg.to, "dnd")
         ELSE IF r1.conn[callee].status = "away" THEN Busy(r1, caller, msg.to, "away")
         ELSE IF r1.conn[callee].status = "busy" /\ r1.conn[callee].activeCallId = NoCall
         THEN Busy(r1, caller, msg.to, "busy")
         ELSE startCall([r1 EXCEPT !.nextCallId = @ + 1], caller, callee, msg.metadata,
                        r1.nextCallId)

\* handleAnswer that accepts the ANSWER of any connection
handleAnswerFromAnyone(r, c, msg) ==
    IF msg.call_id = NoCall THEN sendInvalidPayload(r, c, "ANSWER")
    ELSE IF getCall(r, msg.call_id) = NoCall THEN r
    ELSE LET call == r.calls[msg.call_id]
             r1 == setConnected(r, msg.call_id)
             r2 == clearCallTimer(r1, msg.call_id)
         IN Send(r2, [Frame(call.caller, "CONNECTED") EXCEPT
                         !.call_id = msg.call_id, !.to = r2.conn[call.callee].address])

handleAnswer(r, c, msg) ==
    IF msg.call_id = NoCall THEN sendInvalidPayload(r, c, "ANSWER")
    ELSE IF getCall(r, msg.call_id) = NoCall THEN r
    ELSE IF r.calls[msg.call_id].callee # c THEN r
    ELSE LET call == r.calls[msg.call_id]
             r1 == setConnected(r, msg.call_id)
             r2 == clearCallTimer(r1, msg.call_id)
         IN Send(r2, [Frame(call.caller, "CONNECTED") EXCEPT
                         !.call_id = msg.call_id, !.to = r2.conn[call.callee].address])

handleHangup(r, c, msg) ==
    IF msg.call_id = NoCall THEN sendInvalidPayload(r, c, "HANGUP")
    ELSE IF getCall(r, msg.call_id) = NoCall THEN r
    ELSE IF r.calls[msg.call_id].state = "ended" THEN r
    ELSE IF r.calls[msg.call_id].caller # c /\ r.calls[msg.call_id].callee # c THEN r
    ELSE LET call == r.calls[msg.call_id]
             reason == IF msg.reason = "undefined" THEN "normal" ELSE msg.reason
             r1 == clearCallTimer(r, msg.call_id)
             r2 == endCall(r1, msg.call_id)
             r3 == Send(r2, [Frame(OtherParty(call, c), "HANGUP") EXCEPT
                                !.call_id = msg.call_id, !.reason = reason])
         IN clearCallState(r3, msg.call_id, call)

handleMsg(r, c, msg) ==
    IF msg.call_id = NoCall THEN sendInvalidPayload(r, c, "MSG")
    ELSE IF msg.content_type \notin {"undefined", "text", "json", "binary"}
    THEN sendInvalidPayload(r, c, "MSG")
    ELSE IF getCall(r, msg.call_id) = NoCall
            \/ r.calls[msg.call_id].state # "connected" THEN r
    ELSE IF r.calls[msg.call_id].caller # c /\ r.calls[msg.call_id].callee # c THEN r
    ELSE LET call == r.calls[msg.call_id]
         IN Send(r, [Frame(OtherParty(call, c), "MSG") EXCEPT
                        !.call_id = msg.call_id,
                        !.from = r.conn[c].address,
                        !.data = msg.data,
                        !.content_type = IF msg.content_type = "undefined" THEN "text"
                                         ELSE msg.content_type])

handleSleepAck(r, c) ==
    IF r.conn[c].address = NoAddr THEN sendInvalidPayload(r, c, "SLEEP_ACK")
    ELSE IF r.conn[c].wakeMode # "wake_on_ring" \/ r.conn[c].wakeHandler = NoHandler
    THEN sendInvalidPayload(r, c, "SLEEP_ACK")
    ELSE disconnect(storeWakeProfile(r, c), c, "sleep")

handleCallTimeout(r, callId) ==
    IF getCall(r, callId) = NoCall \/ r.calls[callId].state # "ringing" THEN r
    ELSE LET call == r.calls[callId]
             r1 == Send(r, [Frame(call.caller, "BUSY") EXCEPT
                               !.to = r.conn[call.callee].address, !.reason = "timeout"])
             r2 == Send(r1, [Frame(call.callee, "HANGUP") EXCEPT
                                !.call_id = callId, !.reason = "timeout"])
             r3 == clearCallTimer(r2, callId)
             r4 == endCall(r3, callId)
         IN clearCallState(r4, callId, call)

\* getAllConnections() iterates connectionsBySession in insertion order, which is
\* the order in which the sockets were opened
RECURSIVE DisconnectStale(_, _)
DisconnectStale(r, cs) ==
    IF cs = {} THEN r
    ELSE LET c == CHOOSE x \in cs : \A y \in cs : x <= y
             stale == r.clock - r.conn[c].lastHeartbeat > r.options.heartbeatTimeoutMs
         IN DisconnectStale(IF stale THEN disconnect(r, c, "timeout") ELSE r, cs \ {c})

pruneStaleConnections(r) == DisconnectStale(r, r.bySession)

\* ------------------------------------------------- connection object lifetime
\* A ConnectionContext is reachable from its socket (ws.data), from the registry,
\* and from the CallState and PendingWakeCall objects that hold it.
Referenced(r, c) ==
    \/ r.sockets[c] \in {"open", "closing", "peer"}
    \/ c \in r.bySession
    \/ \E a \in DOMAIN r.byAddress : r.byAddress[a] = c
    \/ \E id \in DOMAIN r.calls : r.calls[id].caller = c \/ r.calls[id].callee = c
    \/ \E id \in DOMAIN r.pendById : r.pendById[id].caller = c

\* An object nothing refers to any more is garbage: its fields are unobservable.
\* So is a wake promise whose call is no longer pending: its .catch callback
\* finds no entry in pendingWakeCallsById and returns.
Collect(r) ==
    [r EXCEPT !.conn = [c \in Conns |->
        IF r.sockets[c] = "closed" /\ ~Referenced(r, c) THEN NewConnection(0)
        ELSE r.conn[c]],
              !.wakeRuns = @ \cap DOMAIN r.pendById]

\* The state a handler leaves behind in the tables of src/src/router.ts
CommitTables(r0) ==
    \E r \in {Collect(r0)} :
       /\ sockets' = r.sockets
       /\ connections' = r.conn
       /\ connectionsByAddress' = r.byAddress
       /\ connectionsBySession' = r.bySession
       /\ calls' = r.calls
       /\ callTimers' = r.callTimers
       /\ ringTimeouts' = r.ringTimeouts
       /\ dialCounters' = r.dialCounters
       /\ wakeProfiles' = r.wakeProfiles
       /\ pendingWakeCallsByAddress' = r.pendByAddr
       /\ pendingWakeCallsById' = r.pendById
       /\ wakeTimeouts' = r.wakeTimeouts
       /\ wakeRuns' = r.wakeRuns
       /\ nextCallId' = r.nextCallId
       /\ clock' = r.clock
       /\ options' = r.options

\* The state a handler of src/src/router.ts leaves behind
Commit(r0) ==
    /\ CommitTables(r0)
    /\ UNCHANGED << concurrency, activeCallIds, broadcasts, sleepTimers, peer, dialLog >>

\* ------------------------------------------------------------------ frames in
RegisterMsg(a, mode, handler) ==
    [ address |-> a, metadata |-> NoMeta, mode |-> mode, wake_handler |-> handler ]

StatusMsg(st, as) == [ status |-> st, auto_sleep |-> as ]

DialMsg(to, md) == [ to |-> to, metadata |-> md ]

AnswerMsg(id) == [ call_id |-> id ]

HangupMsg(id, reason) == [ call_id |-> id, reason |-> reason ]

MsgMsg(id, data, ct) == [ call_id |-> id, data |-> data, content_type |-> ct ]

\* the values the frames of a run are drawn from
PlainModes == { << "undefined", NoHandler >>, << "sleepy", NoHandler >>,
                << "undefined", Webhook >> }
\* connection 1 may move from A1 to A2, which connection 2 registers too
RegisterAddrs(c) == IF c = 1 THEN {A1, A2, BadAddr} ELSE IF c = 2 THEN {A2} ELSE {A3}
StatusInputs == {"dnd", "available", "offline"}
AutoSleepInputs == {"undefined", "invalid"}
DialTargets == Addrs \cup {NoAddr}
\* the last connection dials with metadata, the others without
DialMetadata(c) == IF c = NumConns THEN "m" ELSE NoMeta
HangupReasons == {"undefined", "bye"}
ContentTypes == {"undefined", "json", "xml"}
CallIds == 0..MaxCalls

\* ------------------------------------------------------------------- Init
InitWith(opts) ==
    /\ sockets = [c \in Conns |-> "unused"]
    /\ connections = [c \in Conns |-> NewConnection(0)]
    /\ connectionsByAddress = EmptyMap
    /\ connectionsBySession = {}
    /\ calls = EmptyMap
    /\ callTimers = {}
    /\ ringTimeouts = {}
    /\ dialCounters = EmptyMap
    /\ wakeProfiles = EmptyMap
    /\ pendingWakeCallsByAddress = EmptyMap
    /\ pendingWakeCallsById = EmptyMap
    /\ wakeTimeouts = {}
    /\ wakeRuns = {}
    /\ nextCallId = 1
    /\ clock = 0
    /\ options = opts
    /\ concurrency = [c \in Conns |-> SingleMode]
    /\ activeCallIds = [c \in Conns |-> {}]
    /\ broadcasts = EmptyMap
    /\ sleepTimers = [c \in Conns |-> "none"]
    /\ peer = NewFederationPeer
    /\ dialLog = [c \in Conns |-> << >>]

\* SYSTEMX_DIAL_MAX_ATTEMPTS=0 switches the dial rate limiter off
Init == InitWith([ heartbeatTimeoutMs |-> 0, dialMaxAttempts |-> 0, dialWindowMs |-> 0 ])

\* ------------------------------------------------------------------ actions
\* websocket.open: sockets are numbered in the order they are accepted
Open(c) ==
    /\ sockets[c] = "unused"
    /\ \A d \in Conns : d < c => sockets[d] # "unused"
    /\ Commit(createConnection([Cur EXCEPT !.sockets[c] = "open"], c))

Register(c, a, mode, handler) ==
    /\ sockets[c] = "open"
    /\ Commit(handleRegister(Cur, c, RegisterMsg(a, mode, handler)))

Status(c, st, as) ==
    /\ sockets[c] = "open"
    /\ Commit(handleStatus(Cur, c, StatusMsg(st, as)))

Unregister(c) ==
    /\ sockets[c] = "open"
    /\ Commit(handleUnregister(Cur, c))

Heartbeat(c) ==
    /\ sockets[c] = "open"
    /\ Commit(handleHeartbeat(Cur, c))

Dial(c, to) ==
    /\ sockets[c] = "open"
    /\ nextCallId <= MaxCalls
    /\ c \in DOMAIN dialCounters => dialCounters[c].count <= MaxDials
    /\ Commit(handleDial(Cur, c, DialMsg(to, DialMetadata(c))))

Answer(c, id) ==
    /\ sockets[c] = "open"
    /\ Commit(handleAnswer(Cur, c, AnswerMsg(id)))

Hangup(c, id, reason) ==
    /\ sockets[c] = "open"
    /\ Commit(handleHangup(Cur, c, HangupMsg(id, reason)))

Msg(c, id, ct) ==
    /\ sockets[c] = "open"
    /\ Commit(handleMsg(Cur, c, MsgMsg(id, "d", ct)))

SleepAck(c) ==
    /\ sockets[c] = "open"
    /\ Commit(handleSleepAck(Cur, c))

\* websocket.close: the peer went away, or the close the router asked for completed
SocketClose(c) ==
    /\ sockets[c] \in {"open", "closing"}
    /\ Commit(disconnect([Cur EXCEPT !.sockets[c] = "closed"], c, "peer_disconnected"))

\* the ring setTimeout of scheduleCallTimeout fires
RingTimeout(id) ==
    /\ id \in ringTimeouts
    /\ Commit(handleCallTimeout([Cur EXCEPT !.ringTimeouts = @ \ {id}], id))

\* the wake setTimeout of tryWakeSleepingAgent fires
WakeTimeout(id) ==
    /\ id \in wakeTimeouts
    /\ Commit(failPendingWakeCall([Cur EXCEPT !.wakeTimeouts = @ \ {id}], id, "timeout"))

\* wakeExecutor.wake(profile) rejects: the .catch callback runs
WakeRejected(id) ==
    /\ id \in wakeRuns
    /\ Commit(failPendingWakeCall([Cur EXCEPT !.wakeRuns = @ \ {id}], id, "wake_failed"))

\* wakeExecutor.wake(profile) resolves: nothing is chained on success
WakeResolved(id) ==
    /\ id \in wakeRuns
    /\ Commit([Cur EXCEPT !.wakeRuns = @ \ {id}])

\* setInterval(() => router.pruneStaleConnections(), ...)
Prune ==
    /\ options.heartbeatTimeoutMs > 0
    /\ Commit(pruneStaleConnections(Cur))

Tick ==
    /\ clock < MaxTime
    /\ Commit([Cur EXCEPT !.clock = @ + 1])

\* ------------------------------------------------------ the specifications
\* Clients that never ask for wake-on-ring
Next ==
    \/ \E c \in Conns : Open(c)
    \/ \E c \in Conns : \E a \in RegisterAddrs(c), m \in PlainModes : Register(c, a, m[1], m[2])
    \/ \E c \in Conns, st \in StatusInputs, as \in AutoSleepInputs : Status(c, st, as)
    \/ \E c \in Conns : Unregister(c)
    \/ \E c \in Conns : Heartbeat(c)
    \/ \E c \in Conns, to \in DialTargets : Dial(c, to)
    \/ \E c \in Conns, id \in CallIds : Answer(c, id)
    \/ \E c \in Conns, id \in CallIds, reason \in HangupReasons : Hangup(c, id, reason)
    \/ \E c \in Conns, id \in CallIds, ct \in ContentTypes : Msg(c, id, ct)
    \/ \E c \in Conns : SleepAck(c)
    \/ \E c \in Conns : SocketClose(c)
    \/ \E id \in CallIds : RingTimeout(id)

Spec == Init /\ [][Next]_vars

\* Clients of which some register with mode wake_on_ring
WakeRegisterAddrs(c) == IF c = 1 THEN {A1} ELSE IF c = 2 THEN {A2, A1} ELSE {A3}
WakeRegisterModes(c) ==
    IF c = 1 THEN { << "wake_on_ring", Webhook >>, << "wake_on_ring", NoUrlHook >> }
    ELSE { << "undefined", NoHandler >> }
WakeStatusInputs == {"dnd"}

NextWake ==
    \/ \E c \in Conns : Open(c)
    \/ \E c \in Conns : \E a \in WakeRegisterAddrs(c), m \in WakeRegisterModes(c) :
          Register(c, a, m[1], m[2])
    \/ \E c \in Conns, st \in WakeStatusInputs : Status(c, st, "undefined")
    \/ \E c \in Conns : Unregister(c)
    \/ \E c \in Conns, to \in Addrs : Dial(c, to)
    \/ \E c \in Conns, id \in CallIds : Answer(c, id)
    \/ \E c \in Conns, id \in CallIds : Hangup(c, id, "undefined")
    \/ \E c \in Conns, id \in CallIds : Msg(c, id, "undefined")
    \/ \E c \in Conns : SleepAck(c)
    \/ \E c \in Conns : SocketClose(c)
    \/ \E id \in CallIds : RingTimeout(id)
    \/ \E id \in CallIds : WakeTimeout(id)
    \/ \E id \in CallIds : WakeRejected(id)
    \/ \E id \in CallIds : WakeResolved(id)

SpecWake == Init /\ [][NextWake]_vars

\* ------------------------------------------------------------------ claims
\* well-formed REGISTER payloads
ValidRegisterModes == { << "undefined", NoHandler >>, << "wake_on_ring", Webhook >> }

OpenConns == {c \in Conns : sockets[c] = "open"}

\* C1: each address is bound to at most one live connection; a well-formed
\* REGISTER for an address owned by a different live connection is answered with
\* exactly REGISTER_FAILED{address_in_use} and leaves the owner in place; a
\* connection that re-registers under a new address no longer owns the old one.
C1_AddressHasOneOwner ==
    /\ \A c \in connectionsBySession, d \in connectionsBySession :
          c # d /\ connections[c].address # NoAddr
              => connections[c].address # connections[d].address
    /\ \A a \in DOMAIN connectionsByAddress :
          /\ connectionsByAddress[a] \in connectionsBySession
          /\ connections[connectionsByAddress[a]].address = a
    /\ \A c \in connectionsBySession :
          connections[c].address # NoAddr
              => getByAddress(Cur, connections[c].address) = c
    /\ \A c \in OpenConns, a \in Addrs, m \in ValidRegisterModes :
          LET owner == getByAddress(Cur, a)
              old == connections[c].address
              r == handleRegister(Cur, c, RegisterMsg(a, m[1], m[2]))
          IN /\ owner # NoConn /\ owner # c
                  => /\ r.sent = << [Frame(c, "REGISTER_FAILED") EXCEPT
                                        !.reason = "address_in_use"] >>
                     /\ r.byAddress = connectionsByAddress
                     /\ r.conn[owner].address = a
                     /\ r.conn[c].address = old
             /\ owner = NoConn /\ old # NoAddr
                  => /\ getByAddress(r, old) = NoConn
                     /\ getByAddress(r, a) = c
                     /\ r.conn[c].address = a

\* a registered connection that is refused an address another live connection
\* owns, and that can move to a free address
C1_Witness ==
    \E c \in OpenConns, a \in Addrs, b \in Addrs :
        /\ connections[c].address \notin {NoAddr, a, b}
        /\ getByAddress(Cur, a) \in connectionsBySession \ {c}
        /\ getByAddress(Cur, b) = NoConn
        /\ handleRegister(Cur, c, RegisterMsg(a, "undefined", NoHandler)).sent[1].type
               = "REGISTER_FAILED"
        /\ getByAddress(handleRegister(Cur, c, RegisterMsg(b, "undefined", NoHandler)), b)
               = c

\* the order of the call states
StateRank(st) == IF st = "ringing" THEN 1 ELSE IF st = "connected" THEN 2 ELSE 3

\* C2: in every step (a fully handled DIAL, ANSWER, HANGUP, MSG, ring-timer
\* firing, disconnect or any other event) a call in the table keeps its state or
\* moves forward along ringing -> connected -> ended; a call enters the table
\* ringing and under an id never used for a call before; and no call in state
\* ended is left in the table when the handler returns.
C2_CallStateOnlyAdvances ==
    [][ /\ \A id \in DOMAIN calls :
             /\ calls[id].state # "ended"
             /\ id \in DOMAIN calls'
                  => /\ StateRank(calls'[id].state) >= StateRank(calls[id].state)
                     /\ calls'[id].caller = calls[id].caller
                     /\ calls'[id].callee = calls[id].callee
        /\ \A id \in DOMAIN calls' :
             /\ calls'[id].state # "ended"
             /\ id \notin DOMAIN calls
                  => /\ calls'[id].state = "ringing"
                     /\ id >= nextCallId \/ id \in DOMAIN pendingWakeCallsById
        /\ nextCallId' >= nextCallId
        /\ \A id \in DOMAIN calls' \cup DOMAIN pendingWakeCallsById' : id < nextCallId'
      ]_vars

\* a connected call in the table while an earlier call has been released
C2_Witness ==
    \E id \in DOMAIN calls, gone \in 1..MaxCalls :
        /\ calls[id].state = "connected"
        /\ gone < nextCallId
        /\ gone \notin DOMAIN calls
        /\ gone \notin DOMAIN pendingWakeCallsById

Parties(call) == {call.caller, call.callee}

CallsOf(c) == {id \in DOMAIN calls : calls[id].state # "ended" /\ c \in Parties(calls[id])}

\* C3: after every handled frame or timer event no connection is caller or callee
\* of more than one non-ended call in the call table.
C3_AtMostOneActiveCall ==
    \A c \in Conns : Cardinality(CallsOf(c)) <= 1

Registered(c) == connections[c].address # NoAddr

Live(c) == c \in connectionsBySession

Busied(c, to, reason) == << [Frame(c, "BUSY") EXCEPT !.to = to, !.reason = reason] >>

FramesOfType(fs, type) == {i \in 1..Len(fs) : fs[i].type = type}

\* C4: whenever a live connection is caller or callee of a ringing or connected
\* call, a DIAL to its address from a registered connection that is not a party
\* of that call is answered with exactly BUSY{to, already_in_call}; the call
\* table stays as it is and no RING is sent.
C4_DialToPartyOfCallIsBusy ==
    \A id \in DOMAIN calls : \A p \in Parties(calls[id]) : \A c \in OpenConns :
        /\ calls[id].state \in {"ringing", "connected"}
        /\ Live(p) /\ Registered(p) /\ getByAddress(Cur, connections[p].address) = p
        /\ c \notin Parties(calls[id]) /\ Registered(c)
        => LET to == connections[p].address
               r == handleDial(Cur, c, DialMsg(to, NoMeta))
           IN /\ r.sent = Busied(c, to, "already_in_call")
              /\ r.calls = calls

\* C5: a DIAL from a registered caller to a live callee with no active call and
\* status available creates exactly one call, ringing, under a fresh id; both
\* connections get that activeCallId and status busy; the only frame sent is one
\* RING{from, call_id, metadata} to the callee; the ring timer of the call is armed.
C5_DialStartsRingingCall ==
    \A c \in OpenConns, to \in Addrs, md \in {NoMeta, "m"} :
        LET callee == getByAddress(Cur, to)
            r == handleDial(Cur, c, DialMsg(to, md))
            id == nextCallId
        IN /\ Registered(c)
           /\ callee # NoConn /\ callee # c
           /\ connections[callee].activeCallId = NoCall
           /\ connections[callee].status = "available"
           => /\ id \notin DOMAIN calls
              /\ DOMAIN r.calls = DOMAIN calls \cup {id}
              /\ \A old \in DOMAIN calls : r.calls[old] = calls[old]
              /\ r.calls[id] = [ caller |-> c, callee |-> callee, metadata |-> md,
                                 state |-> "ringing" ]
              /\ r.conn[c].activeCallId = id /\ r.conn[c].status = "busy"
              /\ r.conn[callee].activeCallId = id /\ r.conn[callee].status = "busy"
              /\ r.sent = << [Frame(callee, "RING") EXCEPT
                                 !.from = connections[c].address,
                                 !.call_id = id, !.metadata = md] >>
              /\ id \in r.callTimers /\ id \in r.ringTimeouts

\* a registered caller and an idle, available callee, and the DIAL rings the callee
C5_Witness ==
    \E c \in OpenConns, to \in Addrs :
        /\ Registered(c)
        /\ getByAddress(Cur, to) \notin {NoConn, c}
        /\ connections[getByAddress(Cur, to)].activeCallId = NoCall
        /\ connections[getByAddress(Cur, to)].status = "available"
        /\ calls # EmptyMap
        /\ handleDial(Cur, c, DialMsg(to, "m")).sent[1].type = "RING"

\* C6: an ANSWER takes effect only from the callee of a ringing call: the call
\* becomes connected and the only frame sent is CONNECTED{call_id, to: callee
\* address} to the caller; any other ANSWER, one for an already connected call
\* included, changes nothing and sends nothing.
C6_AnswerOnlyWhenRinging ==
    \A c \in OpenConns, id \in 1..MaxCalls :
        LET r == handleAnswer(Cur, c, AnswerMsg(id))
        IN IF id \in DOMAIN calls /\ calls[id].callee = c /\ calls[id].state = "ringing"
           THEN /\ r.calls = [calls EXCEPT ![id].state = "connected"]
                /\ r.sent = << [Frame(calls[id].caller, "CONNECTED") EXCEPT
                                   !.call_id = id, !.to = connections[c].address] >>
           ELSE /\ r.sent = << >>
                /\ r = Cur

\* C7: a HANGUP from a party of a ringing or connected call releases the call,
\* sends exactly one HANGUP{call_id, reason} (the reason supplied, or normal), to
\* the other party and not to the sender, and cancels the call's ring timer.
C7_HangupEndsCall ==
    \A c \in OpenConns, id \in DOMAIN calls, reason \in HangupReasons :
        LET call == calls[id]
            r == handleHangup(Cur, c, HangupMsg(id, reason))
            hs == FramesOfType(r.sent, "HANGUP")
        IN call.state \in {"ringing", "connected"} /\ c \in Parties(call)
           => /\ id \notin DOMAIN r.calls
              /\ Cardinality(hs) = 1
              /\ \A i \in hs :
                    /\ r.sent[i].dest \in Parties(call)
                    /\ r.sent[i].dest # c
                    /\ r.sent[i].call_id = id
                    /\ r.sent[i].reason = IF reason = "undefined" THEN "normal" ELSE reason
              /\ id \notin r.callTimers /\ id \notin r.ringTimeouts

MsgContentTypes == {"undefined", "text", "json", "binary"}

InACall(conn, cs, pend, c) ==
    \/ conn[c].activeCallId \in DOMAIN cs /\ c \in Parties(cs[conn[c].activeCallId])
    \/ conn[c].activeCallId \in DOMAIN pend /\ pend[conn[c].activeCallId].caller = c
    \/ \E id \in DOMAIN cs : c \in Parties(cs[id])

\* C9: in every step that takes a call out of the table (HANGUP, ring timeout,
\* disconnect of a party) neither party's activeCallId holds that id afterwards,
\* and each party's status is available unless it is in another call or its
\* status was last set by its own STATUS frame; at no time does an activeCallId
\* name an id that is neither a call nor a pending wake call.
C9_TerminatedCallIsCleared ==
    [][ /\ \A id \in DOMAIN calls \ DOMAIN calls' : \A p \in Parties(calls[id]) :
             /\ connections'[p].activeCallId # id
             /\ \/ connections'[p].status = "available"
                \/ InACall(connections', calls', pendingWakeCallsById', p)
                \/ connections'[p].statusSetBy = "client"
        /\ \A c \in Conns :
             connections'[c].activeCallId \in
                 {NoCall} \cup DOMAIN calls' \cup DOMAIN pendingWakeCallsById'
      ]_vars

\* one call was made and has ended, and all three connections are still
\* registered, idle and available
C9_Witness ==
    /\ nextCallId = 2
    /\ calls = EmptyMap
    /\ \A c \in Conns :
          /\ Live(c) /\ Registered(c)
          /\ connections[c].activeCallId = NoCall
          /\ connections[c].status = "available"
          /\ connections[c].statusSetBy = "router"

\* C10: a status dnd, away or busy that a party set with STATUS while the call
\* was ringing or connected is still its status after the step that ends the call.
C10_ManualStatusSurvivesCallEnd ==
    [][ \A id \in DOMAIN calls \ DOMAIN calls' : \A p \in Parties(calls[id]) :
           /\ connections[p].activeCallId = id
           /\ connections[p].statusSetBy = "client"
           /\ connections[p].status \in {"dnd", "away", "busy"}
           /\ Live(p) /\ p \in connectionsBySession'
           => connections'[p].status = connections[p].status
      ]_vars

\* the ring timer of call id fires
FireRingTimer(id) == handleCallTimeout([Cur EXCEPT !.ringTimeouts = @ \ {id}], id)

\* C11: when the ring timer of a ringing call fires, the frames sent are exactly
\* one BUSY{to: callee address, reason: timeout} to the caller and one
\* HANGUP{call_id, reason: timeout} to the callee; the call is released; caller
\* and callee end with no activeCallId and status available.
C11_RingTimeoutEndsCall ==
    \A id \in ringTimeouts :
        id \in DOMAIN calls /\ calls[id].state = "ringing"
        => LET call == calls[id]
               r == FireRingTimer(id)
           IN /\ r.sent = << [Frame(call.caller, "BUSY") EXCEPT
                                 !.to = connections[call.callee].address,
                                 !.reason = "timeout"],
                             [Frame(call.callee, "HANGUP") EXCEPT
                                 !.call_id = id, !.reason = "timeout"] >>
              /\ id \notin DOMAIN r.calls
              /\ \A p \in Parties(call) :
                    /\ r.conn[p].activeCallId = NoCall
                    /\ r.conn[p].status = "available"

\* Clients of which connection 1 registers with wake_on_ring and connection 2
\* sends STATUS frames of every kind
FullStatusInputs == VALID_STATUSES \cup {"offline"}

NextStatus ==
    \/ \E c \in Conns : Open(c)
    \/ \E c \in Conns : \E a \in WakeRegisterAddrs(c), m \in WakeRegisterModes(c) :
          Register(c, a, m[1], m[2])
    \/ \E st \in FullStatusInputs, as \in AutoSleepInputs : Status(2, st, as)
    \/ \E c \in Conns : Unregister(c)
    \/ \E c \in Conns, to \in DialTargets : Dial(c, to)
    \/ \E c \in Conns, id \in CallIds : Answer(c, id)
    \/ \E c \in Conns, id \in CallIds : Hangup(c, id, "undefined")
    \/ \E c \in Conns : SleepAck(c)
    \/ \E c \in Conns : SocketClose(c)
    \/ \E id \in CallIds : RingTimeout(id)
    \/ \E id \in CallIds : WakeTimeout(id)
    \/ \E id \in CallIds : WakeRejected(id)
    \/ \E id \in CallIds : WakeResolved(id)

SpecStatus == Init /\ [][NextStatus]_vars

\* the reason handleDial is to reject a DIAL with, "none" when it is to admit it
RejectReason(c, to) ==
    LET callee == getByAddress(Cur, to)
    IN IF callee = NoConn
       THEN IF to \in DOMAIN wakeProfiles THEN "none" ELSE "no_such_address"
       ELSE IF callee = c THEN "already_in_call"
       ELSE IF connections[callee].activeCallId # NoCall THEN "already_in_call"
       ELSE IF connections[callee].status \in {"dnd", "away", "busy"}
       THEN connections[callee].status
       ELSE "none"

\* C12: a DIAL from a registered caller that is rejected (no live connection and
\* no stored wake profile; self-dial; callee with an active call; callee with no
\* active call and status dnd, away or busy, the busy being one set by STATUS) is
\* answered with exactly one frame, BUSY{to: dialled address, reason}, and changes
\* nothing: no call, no RING, no status, no activeCallId. A DIAL that is not
\* rejected gets no BUSY.
C12_RejectedDialIsBusy ==
    \A c \in OpenConns, to \in Addrs :
        Registered(c)
        => LET r == handleDial(Cur, c, DialMsg(to, NoMeta))
               reason == RejectReason(c, to)
           IN IF reason = "none"
              THEN FramesOfType(r.sent, "BUSY") = {}
              ELSE /\ r.sent = Busied(c, to, reason)
                   /\ [r EXCEPT !.sent = << >>] = Cur
                   /\ reason = "busy"
                        => connections[getByAddress(Cur, to)].statusSetBy = "client"

\* a caller for whom one address is unknown, one is its own, one belongs to a
\* callee that set itself busy, and the callee is refused with reason busy
C12_Witness ==
    \E c \in OpenConns, x \in Addrs, y \in Addrs :
        /\ Registered(c)
        /\ RejectReason(c, connections[c].address) = "already_in_call"
        /\ RejectReason(c, x) = "no_such_address"
        /\ RejectReason(c, y) = "busy"
        /\ handleDial(Cur, c, DialMsg(y, NoMeta)).sent = Busied(c, y, "busy")

\* ------------------------------------------------------------------ disconnects
DisconnectReasons == {"client_requested", "peer_disconnected", "timeout", "sleep"}

\* the state record after the operation that disconnects c with the given reason:
\* UNREGISTER, websocket close, the prune of a stale connection, SLEEP_ACK
Disconnected(c, reason) ==
    CASE reason = "client_requested" -> handleUnregister(Cur, c)
      [] reason = "sleep" -> handleSleepAck(Cur, c)
      [] reason = "peer_disconnected" ->
             disconnect([Cur EXCEPT !.sockets[c] = "closed"], c, reason)
      [] OTHER -> disconnect(Cur, c, reason)

Sleeps(c) ==
    /\ connections[c].address # NoAddr
    /\ connections[c].wakeMode = "wake_on_ring"
    /\ connections[c].wakeHandler # NoHandler

\* C13: when an open, live connection whose activeCallId names a call in the
\* table is disconnected (UNREGISTER, websocket close, heartbeat timeout,
\* SLEEP_ACK), exactly one HANGUP is sent, it goes to the other party and carries
\* the call id and the disconnect reason; the call is released; the other
\* party has no activeCallId; the connection is in neither registry map; and
\* transport.close was called once, with code 4000 and the reason.
C13_DisconnectInCallHangsUp ==
    \A c \in OpenConns, reason \in DisconnectReasons :
        /\ Live(c)
        /\ connections[c].activeCallId \in DOMAIN calls
        /\ (reason = "sleep" => Sleeps(c))
        => LET id == connections[c].activeCallId
               other == OtherParty(calls[id], c)
               r == Disconnected(c, reason)
           IN /\ \E i \in 1..Len(r.sent) :
                    /\ r.sent[i] = [Frame(other, "HANGUP") EXCEPT
                                       !.call_id = id, !.reason = reason]
                    /\ FramesOfType(r.sent, "HANGUP") = {i}
              /\ id \notin DOMAIN r.calls
              /\ r.conn[other].activeCallId = NoCall
              /\ c \notin r.bySession
              /\ \A a \in DOMAIN r.byAddress : r.byAddress[a] # c
              /\ r.closed = << [ dest |-> c, code |-> 4000, reason |-> reason ] >>
              /\ r.sockets[c] # "open"

PendingOf(pend, c) == {id \in DOMAIN pend : pend[id].caller = c}

Queued(byAddr) ==
    UNION {{byAddr[a][i].callId : i \in 1..Len(byAddr[a])} : a \in DOMAIN byAddr}

\* C14: when an open, live connection is disconnected, each pending wake call
\* it is the caller of is answered with exactly one BUSY{to: callee address,
\* reason: the disconnect reason}, leaves the by-id index and every per-address
\* queue, and has no wake timer; afterwards neither the index nor a queue holds
\* a pending wake call whose caller is the disconnected connection.
C14_DisconnectFailsPendingCalls ==
    \A c \in OpenConns, reason \in DisconnectReasons :
        Live(c) /\ (reason = "sleep" => Sleeps(c))
        => LET r == Disconnected(c, reason)
           IN /\ \A id \in PendingOf(pendingWakeCallsById, c) :
                    /\ id \notin DOMAIN r.pendById
                    /\ id \notin Queued(r.pendByAddr)
                    /\ id \notin r.wakeTimeouts
                    /\ \E i \in 1..Len(r.sent) :
                          r.sent[i] = [Frame(c, "BUSY") EXCEPT
                                          !.to = pendingWakeCallsById[id].calleeAddress,
                                          !.reason = reason]
              /\ Cardinality(FramesOfType(r.sent, "BUSY"))
                     = Cardinality(PendingOf(pendingWakeCallsById, c))
              /\ PendingOf(r.pendById, c) = {}
              /\ \A a \in DOMAIN r.pendByAddr : \A i \in 1..Len(r.pendByAddr[a]) :
                     r.pendByAddr[a][i].caller # c

\* --------------------------------------------------------------- wake-on-ring
Asleep(to) == getByAddress(Cur, to) = NoConn /\ to \in DOMAIN wakeProfiles

\* C15: a DIAL from a registered connection to an address that no connection
\* holds and that has a stored wake profile sends no frame; it appends to the
\* queue of that address, and enters in the by-id index, a pending wake call
\* with an id that names no call and no pending wake call, the caller, the
\* dialled address, the metadata and the stored profile; the caller gets that
\* id as activeCallId and status busy; one wake run and one wake timer are
\* started for that id; the other queues and the call table stay as they were.
C15_DialToSleeperQueuesWakeCall ==
    \A c \in OpenConns, to \in Addrs, md \in {NoMeta, "m"} :
        Registered(c) /\ Asleep(to)
        => LET r == handleDial(Cur, c, DialMsg(to, md))
               id == nextCallId
               pending == [ callId |-> id, caller |-> c, calleeAddress |-> to,
                            metadata |-> md, wakeProfile |-> wakeProfiles[to] ]
           IN /\ r.sent = << >>
              /\ id \notin DOMAIN calls /\ id \notin DOMAIN pendingWakeCallsById
              /\ id \notin Queued(pendingWakeCallsByAddress)
              /\ r.nextCallId # id
              /\ r.pendByAddr[to] = Append(QueueOf(Cur, to), pending)
              /\ \A a \in DOMAIN r.pendByAddr \ {to} :
                     a \in DOMAIN pendingWakeCallsByAddress
                     /\ r.pendByAddr[a] = pendingWakeCallsByAddress[a]
              /\ DOMAIN r.pendById = DOMAIN pendingWakeCallsById \cup {id}
              /\ r.pendById[id] = pending
              /\ \A old \in DOMAIN pendingWakeCallsById :
                     r.pendById[old] = pendingWakeCallsById[old]
              /\ r.conn[c].activeCallId = id /\ r.conn[c].status = "busy"
              /\ id \notin wakeRuns /\ r.wakeRuns = wakeRuns \cup {id}
              /\ id \notin wakeTimeouts /\ r.wakeTimeouts = wakeTimeouts \cup {id}
              /\ r.calls = calls /\ r.wakeProfiles = wakeProfiles

\* a pending wake call whose caller is busy with it, with its wake run and its
\* wake timer under way, queued behind an older one
C15_Witness ==
    \E a \in DOMAIN pendingWakeCallsByAddress :
        /\ Len(pendingWakeCallsByAddress[a]) = 2
        /\ getByAddress(Cur, a) = NoConn
        /\ LET p == pendingWakeCallsByAddress[a][2]
           IN /\ connections[p.caller].activeCallId = p.callId
              /\ connections[p.caller].status = "busy"
              /\ sockets[p.caller] = "open"
              /\ p.callId \in wakeRuns /\ p.callId \in wakeTimeouts
              /\ pendingWakeCallsById[p.callId] = p

FireWakeTimer(id) == failPendingWakeCall([Cur EXCEPT !.wakeTimeouts = @ \ {id}], id, "timeout")

FireWakeRejected(id) ==
    failPendingWakeCall([Cur EXCEPT !.wakeRuns = @ \ {id}], id, "wake_failed")

\* the state records the frame handlers, socket events and timers that can run
\* in the current state end in
Handled ==
    {handleRegister(Cur, c, RegisterMsg(a, m[1], m[2])) :
         c \in OpenConns, a \in Addrs, m \in ValidRegisterModes}
    \cup {handleDial(Cur, c, DialMsg(to, DialMetadata(c))) : c \in OpenConns, to \in Addrs}
    \cup {handleAnswer(Cur, c, AnswerMsg(id)) : c \in OpenConns, id \in DOMAIN calls}
    \cup {handleHangup(Cur, c, HangupMsg(id, "undefined")) :
              c \in OpenConns, id \in DOMAIN calls}
    \cup {handleStatus(Cur, c, StatusMsg(st, "undefined")) :
              c \in OpenConns, st \in VALID_STATUSES}
    \cup {Disconnected(c, reason) : c \in OpenConns, reason \in DisconnectReasons}
    \cup {FireRingTimer(id) : id \in ringTimeouts}
    \cup {FireWakeTimer(id) : id \in wakeTimeouts}
    \cup {FireWakeRejected(id) : id \in wakeRuns}

WakeFailReasons == {"timeout", "wake_failed", "caller_unavailable"}

\* C16: whatever handler, socket event or timer runs next, a pending wake call
\* that leaves the by-id index either is in the call table afterwards under the
\* same call id, with the same caller, or the handler has sent a BUSY to its
\* caller, for its address, with reason timeout, wake_failed or
\* caller_unavailable. (The claim adds that one of the two happens eventually.)
C16_PendingCallBecomesCallOrBusy ==
    \A r \in Handled : \A id \in DOMAIN pendingWakeCallsById \ DOMAIN r.pendById :
        LET pending == pendingWakeCallsById[id]
        IN \/ id \in DOMAIN r.calls /\ r.calls[id].caller = pending.caller
           \/ \E i \in 1..Len(r.sent), reason \in WakeFailReasons :
                 r.sent[i] = [Frame(pending.caller, "BUSY") EXCEPT
                                 !.to = pending.calleeAddress, !.reason = reason]

\* index of the oldest entry of q whose caller is still in the registry, 0 if none
FirstConnected(q) ==
    IF \E i \in 1..Len(q) : Live(q[i].caller)
    THEN CHOOSE i \in 1..Len(q) : Live(q[i].caller) /\ \A j \in 1..(i - 1) : ~Live(q[j].caller)
    ELSE 0

\* C17: when a well-formed REGISTER for an address that is free or the sender's
\* own is handled while the queue of that address holds a pending wake call
\* whose caller is still connected, the handler sends exactly REGISTERED{address}
\* and then RING{from: the caller's address, call_id and metadata of the oldest
\* such pending call}, both to the registering connection; that pending call
\* is in the call table as a ringing call from its caller to the registering
\* connection; it is the head of the queue and the only entry that leaves the
\* queue and the by-id index, the rest of the queue keeping its order.
C17_RegisterResumesOldestPending ==
    \A c \in OpenConns, a \in Addrs, m \in ValidRegisterModes :
        LET q == QueueOf(Cur, a)
            k == FirstConnected(q)
            r == handleRegister(Cur, c, RegisterMsg(a, m[1], m[2]))
        IN getByAddress(Cur, a) \in {NoConn, c} /\ k # 0
           => /\ r.sent = << [Frame(c, "REGISTERED") EXCEPT !.address = a],
                             [Frame(c, "RING") EXCEPT
                                 !.from = r.conn[q[k].caller].address,
                                 !.call_id = q[k].callId,
                                 !.metadata = q[k].metadata] >>
              /\ q[k].callId \in DOMAIN r.calls
              /\ r.calls[q[k].callId] = [ caller |-> q[k].caller, callee |-> c,
                                          metadata |-> q[k].metadata,
                                          state |-> "ringing" ]
              /\ k = 1
              /\ QueueOf(r, a) = Tail(q)
              /\ DOMAIN r.pendById = DOMAIN pendingWakeCallsById \ {q[1].callId}
              /\ \A b \in Addrs \ {a} : QueueOf(r, b) = QueueOf(Cur, b)

\* the younger of two pending wake calls, dialled with metadata, is at the head
\* of its queue while the older one rings at the connection that registered
C17_Witness ==
    \E a \in DOMAIN pendingWakeCallsByAddress, id \in DOMAIN calls :
        /\ calls[id].state = "ringing"
        /\ connections[calls[id].callee].address = a
        /\ calls[id].caller # calls[id].callee
        /\ Head(pendingWakeCallsByAddress[a]).callId > id
        /\ Head(pendingWakeCallsByAddress[a]).metadata # calls[id].metadata

\* C18: in every state between two handled events, an address that has a pending
\* wake call, in its queue or in the by-id index, is held by no connection.
C18_NoPendingCallForBoundAddress ==
    /\ \A a \in DOMAIN pendingWakeCallsByAddress : getByAddress(Cur, a) = NoConn
    /\ \A id \in DOMAIN pendingWakeCallsById :
          getByAddress(Cur, pendingWakeCallsById[id].calleeAddress) = NoConn

\* REGISTER of address a by c gets through registerAddress
RegisterSucceeds(c, a) == getByAddress(Cur, a) \in {NoConn, c}

\* C19: in every state between two handled events no address with a stored wake
\* profile is held by a connection, and every well-formed REGISTER that
\* succeeds, with or without a wake handler of its own, ends with no stored
\* wake profile for its address.
C19_NoStoredProfileForBoundAddress ==
    /\ \A a \in DOMAIN wakeProfiles : getByAddress(Cur, a) = NoConn
    /\ \A c \in OpenConns, a \in Addrs, m \in ValidRegisterModes :
          RegisterSucceeds(c, a)
          => a \notin DOMAIN handleRegister(Cur, c, RegisterMsg(a, m[1], m[2])).wakeProfiles

\* Clients of which two register with mode wake_on_ring, hanging up by
\* disconnecting only
ProfileRegisterModes(c) ==
    IF c = NumConns THEN { << "undefined", NoHandler >> } ELSE ValidRegisterModes

NextProfile ==
    \/ \E c \in Conns : Open(c)
    \/ \E c \in Conns : \E a \in WakeRegisterAddrs(c), m \in ProfileRegisterModes(c) :
          Register(c, a, m[1], m[2])
    \/ \E c \in Conns : Unregister(c)
    \/ \E c \in Conns, to \in Addrs : Dial(c, to)
    \/ \E c \in Conns : SleepAck(c)
    \/ \E c \in Conns : SocketClose(c)
    \/ \E id \in CallIds : RingTimeout(id)
    \/ \E id \in CallIds : WakeTimeout(id)
    \/ \E id \in CallIds : WakeRejected(id)
    \/ \E id \in CallIds : WakeResolved(id)

SpecProfile == Init /\ [][NextProfile]_vars

\* C20: when a REGISTER without mode and wake handler for an address that has
\* a stored wake profile, and that is free or the sender's own, is handled, the
\* registering connection ends with wakeMode wake_on_ring and the stored handler,
\* and the store has no entry for the address any more.
C20_RegisterReinstatesStoredProfile ==
    \A c \in OpenConns, a \in DOMAIN wakeProfiles :
        RegisterSucceeds(c, a)
        => LET r == handleRegister(Cur, c, RegisterMsg(a, "undefined", NoHandler))
           IN /\ r.conn[c].address = a
              /\ r.conn[c].wakeMode = "wake_on_ring"
              /\ r.conn[c].wakeHandler = wakeProfiles[a]
              /\ a \notin DOMAIN r.wakeProfiles

\* ------------------------------------------------------- the heartbeat sweeper
\* Clients that send heartbeats while the clock advances and the sweeper runs
InitSweep == InitWith([ heartbeatTimeoutMs |-> 1, dialMaxAttempts |-> 0, dialWindowMs |-> 0 ])

NextSweep ==
    \/ \E c \in Conns : Open(c)
    \/ \E c \in Conns : \E a \in WakeRegisterAddrs(c), m \in WakeRegisterModes(c) :
          Register(c, a, m[1], m[2])
    \/ \E c \in Conns : Heartbeat(c)
    \/ \E c \in Conns : Unregister(c)
    \/ \E c \in Conns, to \in Addrs : Dial(c, to)
    \/ \E c \in Conns : SleepAck(c)
    \/ \E c \in Conns : SocketClose(c)
    \/ \E id \in CallIds : WakeTimeout(id)
    \/ Prune
    \/ Tick

SpecSweep == InitSweep /\ [][NextSweep]_vars
Stale(c) == clock - connections[c].lastHeartbeat > options.heartbeatTimeoutMs

\* the entries of wakeProfiles in r that the current store does not hold
\* unchanged are exactly the profiles of the connections in cs
StoresExactly(r, cs) ==
    /\ \A c \in cs : /\ connections[c].address \in DOMAIN r.wakeProfiles
                     /\ r.wakeProfiles[connections[c].address] = connections[c].wakeHandler
    /\ \A a \in DOMAIN r.wakeProfiles :
          \/ \E c \in cs : connections[c].address = a
          \/ a \in DOMAIN wakeProfiles /\ r.wakeProfiles[a] = wakeProfiles[a]

\* C21: SLEEP_ACK, UNREGISTER and the heartbeat sweep write the profile
\* (address, handler) of each connection they disconnect that is registered
\* with wake_on_ring and a handler, and of no other; a SLEEP_ACK from a
\* connection not so configured is answered with exactly ERROR{invalid_payload,
\* SLEEP_ACK} and changes nothing; a websocket close, and every other frame and
\* timer, leaves the store as it is.
C21_ProfileStoredOnSleepUnregisterTimeout ==
    /\ \A c \in OpenConns :
          /\ Sleeps(c) => LET r == handleSleepAck(Cur, c)
                          IN StoresExactly(r, {c}) /\ c \notin r.bySession
                             /\ r.closed = << [ dest |-> c, code |-> 4000,
                                                reason |-> "sleep" ] >>
          /\ ~Sleeps(c) => LET r == handleSleepAck(Cur, c)
                           IN /\ r.sent = << [Frame(c, "ERROR") EXCEPT
                                                 !.reason = "invalid_payload",
                                                 !.context = "SLEEP_ACK"] >>
                              /\ [r EXCEPT !.sent = << >>] = Cur
          /\ LET r == handleUnregister(Cur, c)
             IN StoresExactly(r, IF Sleeps(c) THEN {c} ELSE {}) /\ c \notin r.bySession
          /\ StoresExactly(Disconnected(c, "peer_disconnected"), {})
    /\ LET r == pruneStaleConnections(Cur)
       IN /\ StoresExactly(r, {c \in connectionsBySession : Stale(c) /\ Sleeps(c)})
          /\ \A c \in connectionsBySession : Stale(c) => c \notin r.bySession
    /\ \A r \in Handled \ {Disconnected(c, reason) : c \in OpenConns, reason \in DisconnectReasons} :
          StoresExactly(r, {})

\* a stale connection registered with wake_on_ring and a handler, about to be
\* swept, next to one that is not stale
C21_Witness ==
    \E c \in OpenConns, d \in OpenConns :
        /\ Stale(c) /\ Sleeps(c) /\ connections[c].address \notin DOMAIN wakeProfiles
        /\ ~Stale(d) /\ Registered(d)

\* the wake run or the wake timer of a pending wake call ends it with the given reason
WakeFailed(id, reason) ==
    IF reason = "wake_failed" THEN FireWakeRejected(id) ELSE FireWakeTimer(id)

\* C22: when the wake run of a pending wake call rejects, or its wake timer
\* fires, the handler sends exactly one frame, BUSY{to: callee address, reason:
\* wake_failed resp. timeout} to the pending call's caller; the pending call is
\* in neither the by-id index nor a queue afterwards; and the caller has no
\* activeCallId and status available.
C22_FailedWakeIsBusy ==
    \A id \in DOMAIN pendingWakeCallsById, reason \in {"wake_failed", "timeout"} :
        (reason = "wake_failed" => id \in wakeRuns) /\ (reason = "timeout" => id \in wakeTimeouts)
        => LET pending == pendingWakeCallsById[id]
               r == WakeFailed(id, reason)
           IN /\ r.sent = << [Frame(pending.caller, "BUSY") EXCEPT
                                 !.to = pending.calleeAddress, !.reason = reason] >>
              /\ id \notin DOMAIN r.pendById
              /\ id \notin Queued(r.pendByAddr)
              /\ r.conn[pending.caller].activeCallId = NoCall
              /\ r.conn[pending.caller].status = "available"

\* ------------------------------------------------------- the dial rate limiter
\* Clients that dial while the clock advances, two DIAL frames allowed per window
InitRate == InitWith([ heartbeatTimeoutMs |-> 0, dialMaxAttempts |-> 2, dialWindowMs |-> 1 ])

\* the connections that dial
RateCallers == {2}

NextRate ==
    \/ \E c \in Conns : Open(c)
    \/ \E c \in Conns : \E a \in WakeRegisterAddrs(c), m \in WakeRegisterModes(c) :
          Register(c, a, m[1], m[2])
    \/ \E c \in Conns : Unregister(c)
    \/ \E c \in RateCallers, to \in DialTargets : Dial(c, to)
    \/ \E c \in Conns : SocketClose(c)
    \/ \E id \in CallIds : RingTimeout(id)
    \/ \E id \in CallIds : WakeTimeout(id)
    \/ Tick

SpecRate == InitRate /\ [][NextRate]_vars
\* the window of c's dial counter has not expired
InWindow(c) ==
    c \in DOMAIN dialCounters /\ clock - dialCounters[c].windowStart <= options.dialWindowMs

\* DIAL frames of c counted in the window under way
Used(c) == IF InWindow(c) THEN dialCounters[c].count ELSE 0

\* the state record without the dial counters and the limiter's options
SansLimiter(r) == [r EXCEPT !.dialCounters = EmptyMap, !.options = Cur.options]

\* C23: with maxAttempts = N > 0, a DIAL with a non-empty 'to' from a session
\* that has fewer than N DIAL frames counted in its current window is handled
\* as with the limiter off and is counted (count + 1 in the window, or count 1
\* in a new window starting now when there is no window or it has expired); a
\* DIAL from a session with N or more counted in the window gets exactly
\* ERROR{rate_limited, context DIAL}, is counted, and changes nothing else.
C23_DialRateLimit ==
    \A c \in OpenConns, to \in Addrs :
        options.dialMaxAttempts > 0
        => LET msg == DialMsg(to, DialMetadata(c))
               r == handleDial(Cur, c, msg)
               free == handleDial([Cur EXCEPT !.options.dialMaxAttempts = 0], c, msg)
           IN /\ r.dialCounters[c] =
                    IF InWindow(c)
                    THEN [ count |-> dialCounters[c].count + 1,
                           windowStart |-> dialCounters[c].windowStart ]
                    ELSE [ count |-> 1, windowStart |-> clock ]
              /\ \A d \in DOMAIN r.dialCounters \ {c} :
                    d \in DOMAIN dialCounters /\ r.dialCounters[d] = dialCounters[d]
              /\ IF Used(c) < options.dialMaxAttempts
                 THEN SansLimiter(r) = SansLimiter(free)
                 ELSE /\ r.sent = << [Frame(c, "ERROR") EXCEPT
                                         !.reason = "rate_limited", !.context = "DIAL"] >>
                      /\ SansLimiter([r EXCEPT !.sent = << >>]) = SansLimiter(Cur)

\* a session at its limit, dialling a registered, idle address and an address
\* with a stored wake profile
C23_Witness ==
    \E c \in OpenConns, to \in Addrs, zz \in Addrs :
        /\ Registered(c) /\ Used(c) = options.dialMaxAttempts
        /\ Asleep(zz)
        /\ getByAddress(Cur, to) \notin {NoConn, c}
        /\ connections[getByAddress(Cur, to)].activeCallId = NoCall

StaleConns == {c \in connectionsBySession : Stale(c)}

\* C24: the sweep removes from the registry exactly the connections whose last
\* heartbeat is more than heartbeatTimeoutMs before now, closes each of them
\* once with code 4000 and reason timeout and closes no other, and every other
\* connection keeps its address and its entry in the address map; a HEARTBEAT
\* sets the sender's last heartbeat to now and is answered with exactly
\* HEARTBEAT_ACK{timestamp: now}, and a sweep right after it, or at any time up
\* to heartbeatTimeoutMs later, keeps the sender.
C24_SweepEvictsExactlyStale ==
    /\ LET r == pruneStaleConnections(Cur)
       IN /\ r.bySession = connectionsBySession \ StaleConns
          /\ Len(r.closed) = Cardinality(StaleConns)
          /\ \A c \in StaleConns : \E i \in 1..Len(r.closed) :
                r.closed[i] = [ dest |-> c, code |-> 4000, reason |-> "timeout" ]
          /\ \A c \in connectionsBySession \ StaleConns :
                /\ r.conn[c].address = connections[c].address
                /\ r.sockets[c] = sockets[c]
                /\ getByAddress(Cur, connections[c].address) = c
                      => getByAddress(r, connections[c].address) = c
    /\ \A c \in OpenConns :
          LET r == handleHeartbeat(Cur, c)
          IN /\ r.conn[c].lastHeartbeat = clock
             /\ r.sent = << [Frame(c, "HEARTBEAT_ACK") EXCEPT !.timestamp = clock] >>
             /\ [r EXCEPT !.sent = << >>, !.conn[c].lastHeartbeat = 0]
                   = [Cur EXCEPT !.conn[c].lastHeartbeat = 0]
             /\ \A later \in clock..(clock + options.heartbeatTimeoutMs) :
                   c \in pruneStaleConnections([r EXCEPT !.clock = later]).bySession

\* a sweep about to evict one connection and keep another that sent a heartbeat
\* after the clock had advanced
C24_Witness ==
    \E c \in OpenConns, d \in OpenConns :
        /\ Stale(c) /\ ~Stale(d)
        /\ Registered(c) /\ Registered(d)
        /\ connections[d].lastHeartbeat > 0
        /\ clock - connections[d].lastHeartbeat = options.heartbeatTimeoutMs

\* ------------------------------------------------------------------- presence
\* JSON values of a payload carry their typeof
Str(s) == [ t |-> "string", v |-> s ]
Num(s) == [ t |-> "number", v |-> s ]
Undefined == [ t |-> "undefined", v |-> << >> ]

UpperCase == << "A", "B", "C", "D", "E", "F", "G", "H", "I", "J", "K", "L", "M",
               "N", "O", "P", "Q", "R", "S", "T", "U", "V", "W", "X", "Y", "Z" >>
LowerCase == << "a", "b", "c", "d", "e", "f", "g", "h", "i", "j", "k", "l", "m",
               "n", "o", "p", "q", "r", "s", "t", "u", "v", "w", "x", "y", "z" >>

\* String.prototype.toLowerCase on a sequence of characters
toLowerCase(s) ==
    [ i \in 1..Len(s) |->
        IF \E k \in 1..Len(UpperCase) : UpperCase[k] = s[i]
        THEN LowerCase[CHOOSE k \in 1..Len(UpperCase) : UpperCase[k] = s[i]]
        ELSE s[i] ]

\* index of the first "@" of s at or after from, 0 if there is none
IndexOfAt(s, from) ==
    IF \E i \in from..Len(s) : s[i] = "@"
    THEN CHOOSE i \in from..Len(s) : s[i] = "@" /\ \A j \in from..(i - 1) : s[j] # "@"
    ELSE 0

\* address.split("@")[1]
DomainPart(s) ==
    LET i == IndexOfAt(s, 1)
        j == IndexOfAt(s, i + 1)
    IN IF i = 0 THEN Undefined
       ELSE Str(SubSeq(s, i + 1, IF j = 0 THEN Len(s) ELSE j - 1))

\* Registration metadata is named by a token; (metadata as any)?.capabilities
MetaCapabilities(md) ==
    CASE md = "chat" -> [ isArray |-> TRUE, items |-> << Str("chat") >> ]
      [] md = "chatcode" -> [ isArray |-> TRUE, items |-> << Str("chat"), Str("code") >> ]
      [] md = "mixed" -> [ isArray |-> TRUE, items |-> << Num("7"), Str("code") >> ]
      [] md = "notarray" -> [ isArray |-> FALSE, items |-> << >> ]
      [] OTHER -> [ isArray |-> FALSE, items |-> << >> ]

\* items.filter(typeof item === "string") as the set Array.includes searches
StringCaps(md) ==
    LET caps == MetaCapabilities(md)
        candidateCaps == IF caps.isArray THEN caps.items ELSE << >>
    IN { candidateCaps[i].v : i \in { k \in 1..Len(candidateCaps) :
                                         candidateCaps[k].t = "string" } }

matchesPresenceQueryCaseSensitive(r, c, query) ==
    IF r.conn[c].address = NoAddr THEN FALSE
    ELSE IF query.domain.t = "string" /\ Len(query.domain.v) > 0
            /\ LET domainPart == DomainPart(r.conn[c].address)
               IN \/ domainPart.t = "undefined"
                  \/ Len(domainPart.v) = 0
                  \/ domainPart.v # query.domain.v
    THEN FALSE
    ELSE IF query.capabilities.t = "array"
            /\ \E i \in 1..Len(query.capabilities.items) :
                  query.capabilities.items[i].v \notin StringCaps(r.conn[c].metadata)
    THEN FALSE
    ELSE TRUE

\* query is [domain, capabilities]: domain a JSON value, capabilities
\* [t: undefined | array | other, items]; the near filter is never given
matchesPresenceQuery(r, c, query) ==
    IF r.conn[c].address = NoAddr THEN FALSE
    ELSE IF query.domain.t = "string" /\ Len(query.domain.v) > 0
            /\ LET domainPart == DomainPart(r.conn[c].address)
               IN \/ domainPart.t = "undefined"
                  \/ Len(domainPart.v) = 0
                  \/ toLowerCase(domainPart.v) # toLowerCase(query.domain.v)
    THEN FALSE
    ELSE IF query.capabilities.t = "array"
            /\ \E i \in 1..Len(query.capabilities.items) :
                  query.capabilities.items[i].v \notin StringCaps(r.conn[c].metadata)
    THEN FALSE
    ELSE TRUE

\* the loop over connections.getAllConnections(), in the order of the map
RECURSIVE PresenceResults(_, _, _, _)
PresenceResults(r, c, query, cs) ==
    IF cs = {} THEN << >>
    ELSE LET other == CHOOSE x \in cs : \A y \in cs : x <= y
             rest == PresenceResults(r, c, query, cs \ {other})
         IN IF r.conn[other].address = NoAddr THEN rest
            ELSE IF other = c THEN rest
            ELSE IF ~matchesPresenceQuery(r, other, query) THEN rest
            ELSE << [ address |-> r.conn[other].address,
                      status |-> r.conn[other].status,
                      metadata |-> IF r.conn[other].metadata = NoMeta THEN "{}"
                                   ELSE r.conn[other].metadata ] >> \o rest

handlePresence(r, c, msg) ==
    IF r.conn[c].address = NoAddr
    THEN Send(r, [Frame(c, "ERROR") EXCEPT !.reason = "not_registered",
                                          !.context = "PRESENCE"])
    ELSE IF msg.query.domain.t \notin {"undefined", "string"}
    THEN sendInvalidPayload(r, c, "PRESENCE")
    ELSE IF msg.query.capabilities.t = "other"
    THEN sendInvalidPayload(r, c, "PRESENCE")
    ELSE IF msg.query.capabilities.t = "array"
            /\ \E i \in 1..Len(msg.query.capabilities.items) :
                  msg.query.capabilities.items[i].t # "string"
    THEN sendInvalidPayload(r, c, "PRESENCE")
    ELSE Send(r, [Frame(c, "PRESENCE_RESULT") EXCEPT
                     !.addresses = PresenceResults(r, c, msg.query, r.bySession)])

PresenceMsg(domain, capabilities) ==
    [ query |-> [ domain |-> domain, capabilities |-> capabilities ] ]

\* the values the presence frames of a run are drawn from
B1 == << "a", "@", "x", ".", "y" >>
B2 == << "b", "@", "X", ".", "Y" >>
B3 == << "c", "@", "z", ".", "y" >>
PresenceAddrs(c) == IF c = 1 THEN {B1} ELSE IF c = 2 THEN {B2, B3} ELSE {B3}
PresenceMetadata(c) ==
    IF c = 1 THEN {"chat", "mixed"} ELSE IF c = 2 THEN {NoMeta, "chatcode"}
    ELSE {"notarray", "chatcode"}
NoCaps == [ t |-> "undefined", items |-> << >> ]
Caps(items) == [ t |-> "array", items |-> items ]
DomainInputs == { Undefined, Str(<< >>), Str(<< "x", ".", "y" >>),
                  Str(<< "X", ".", "y" >>), Str(<< "y" >>), Num(<< "7" >>) }
CapabilityInputs == { NoCaps, Caps(<< >>), Caps(<< Str("chat") >>), Caps(<< Str("code") >>),
                      Caps(<< Str("code"), Str("chat") >>), Caps(<< Str("7") >>),
                      Caps(<< Num("7") >>), [ t |-> "other", items |-> << >> ] }

RegisterWith(c, a, md) ==
    /\ sockets[c] = "open"
    /\ Commit(handleRegister(Cur, c, [RegisterMsg(a, "undefined", NoHandler)
                                         EXCEPT !.metadata = md]))

Presence(c, domain, capabilities) ==
    /\ sockets[c] = "open"
    /\ Commit(handlePresence(Cur, c, PresenceMsg(domain, capabilities)))

\* Clients that register with metadata and ask for presence
NextPresence ==
    \/ \E c \in Conns : Open(c)
    \/ \E c \in Conns : \E a \in PresenceAddrs(c), md \in PresenceMetadata(c) :
          RegisterWith(c, a, md)
    \/ \E c \in Conns, st \in StatusInputs : Status(c, st, "undefined")
    \/ \E c \in Conns : Unregister(c)
    \/ \E c \in Conns : SocketClose(c)
    \/ \E c \in Conns, domain \in {Undefined, Num(<< "7" >>)} :
          Presence(c, domain, NoCaps)

SpecPresence == Init /\ [][NextPresence]_vars

\* two characters that are the same letter in either case, or the same character
SameLetter(x, y) ==
    \/ x = y
    \/ \E k \in 1..Len(UpperCase) : {x, y} = {UpperCase[k], LowerCase[k]}

EqualsIgnoringCase(s, t) ==
    Len(s) = Len(t) /\ \A i \in 1..Len(s) : SameLetter(s[i], t[i])

\* the part of a valid address after its "@"
AfterAt(a) == SubSeq(a, (CHOOSE i \in 1..Len(a) : a[i] = "@") + 1, Len(a))

WellFormedQueries ==
    { PresenceMsg(d, k) : d \in {x \in DomainInputs : x.t # "number"},
                          k \in {x \in CapabilityInputs :
                                   x.t # "other" /\ \A i \in 1..Len(x.items) :
                                                       x.items[i].t = "string"} }

\* the connections a presence request of c with the given query is to report
PresenceMatches(c, query) ==
    { d \in connectionsBySession \ {c} :
        /\ Registered(d)
        /\ query.domain.t = "string" /\ query.domain.v # << >>
              => EqualsIgnoringCase(AfterAt(connections[d].address), query.domain.v)
        /\ query.capabilities.t = "array"
              => \A i \in 1..Len(query.capabilities.items) :
                    \E j \in 1..Len(MetaCapabilities(connections[d].metadata).items) :
                        MetaCapabilities(connections[d].metadata).items[j]
                            = query.capabilities.items[i] }

CallIdInputs == 1..MaxCalls

\* c may act on call id with an ANSWER / with a HANGUP or MSG
MayAnswer(c, id) == id \in DOMAIN calls /\ calls[id].callee = c
IsParty(c, id) == id \in DOMAIN calls /\ c \in Parties(calls[id])

\* C26: an ANSWER from a connection that is not the callee of the call it
\* names, a HANGUP or MSG from a connection that is neither its caller nor its
\* callee, and an ANSWER, HANGUP or MSG naming a call id that is not in the
\* call table (never issued, or released) change nothing: calls, connections,
\* timers and every other part of the router state stay as they are and no
\* frame is sent and no transport closed.
C26_UnentitledFramesHaveNoEffect ==
    \A c \in OpenConns, id \in CallIdInputs :
        /\ ~MayAnswer(c, id) => handleAnswer(Cur, c, AnswerMsg(id)) = Cur
        /\ ~IsParty(c, id) =>
              /\ \A reason \in HangupReasons :
                    handleHangup(Cur, c, HangupMsg(id, reason)) = Cur
              /\ \A ct \in MsgContentTypes :
                    handleMsg(Cur, c, MsgMsg(id, "d", ct)) = Cur

\* a connected call with an open bystander and with its caller distinct from
\* its callee, next to a call id that was issued and released
C26_Witness ==
    \E id \in DOMAIN calls, c \in OpenConns :
        /\ calls[id].state = "connected"
        /\ calls[id].caller # calls[id].callee
        /\ c \notin Parties(calls[id])
        /\ \E old \in CallIdInputs : old < nextCallId /\ old \notin DOMAIN calls


\* ========== concurrency modes, broadcast sessions and auto-sleep ==========
\* src/src/router.ts keeps one activeCallId per connection and never reads
\* concurrency, max_listeners, max_sessions or autoSleep; the router that the
\* tests of src/unnamed/part_009 (lines 813-866, 1190-1212, 1222-1281) drive
\* and src/src/types.ts declares frames for is written here from the
\* specification, sections 4.2 to 4.6 and 4.9.  Where the specification
\* repeats what src/src/router.ts does, its definitions are used.
ConcurrencyMode == {"single", "broadcast", "parallel"}

\* The state record with the tables of the concurrency modes
CurAll ==
    Cur @@ [ concurrency |-> concurrency, activeCallIds |-> activeCallIds,
             broadcasts |-> broadcasts, sleepTimers |-> sleepTimers ]

\* the client holds an explicit manual status
Overridden(r, c) == r.conn[c].statusSetBy = "client" /\ r.conn[c].status # "available"

\* armIdleTimer that arms the timer of a connection in a call as well
armIdleTimerInCall(r, c) ==
    [r EXCEPT !.sleepTimers[c] =
        IF c \in r.bySession /\ r.conn[c].autoSleep = "wake_on_ring"
        THEN "idle" ELSE "none"]

\* 4.6: the idle timer is armed while autoSleep.wakeOnRing is true and the
\* connection has no active calls; arming replaces either timer
armIdleTimer(r, c) ==
    [r EXCEPT !.sleepTimers[c] =
        IF c \in r.bySession /\ r.conn[c].autoSleep = "wake_on_ring"
           /\ r.activeCallIds[c] = {}
        THEN "idle" ELSE "none"]

\* a connection becomes a participant of call id
enterCall(r, c, id) ==
    LET r1 == [r EXCEPT !.activeCallIds[c] = @ \cup {id}]
        r2 == IF Overridden(r1, c) THEN r1
              ELSE [r1 EXCEPT !.conn[c].status = "busy", !.conn[c].statusSetBy = "router"]
    IN armIdleTimer(r2, c)

\* a connection stops being a participant of call id
leaveCall(r, c, id) ==
    LET r1 == [r EXCEPT !.activeCallIds[c] = @ \ {id}]
        r2 == IF r1.activeCallIds[c] = {} /\ ~Overridden(r1, c)
              THEN [r1 EXCEPT !.conn[c].status = "available",
                              !.conn[c].statusSetBy = "router"]
              ELSE r1
    IN armIdleTimer(r2, c)

RECURSIVE LeaveAll(_, _, _)
LeaveAll(r, cs, id) ==
    IF cs = {} THEN r
    ELSE LET c == CHOOSE x \in cs : \A y \in cs : x <= y
         IN LeaveAll(leaveCall(r, c, id), cs \ {c}, id)

\* send one frame, the same but for its destination, to each of cs
RECURSIVE SendAll(_, _, _)
SendAll(r, cs, f) ==
    IF cs = {} THEN r
    ELSE LET c == CHOOSE x \in cs : \A y \in cs : x <= y
         IN SendAll(Send(r, [f EXCEPT !.dest = c]), cs \ {c}, f)

\* ------------------------------------------------------------ 4.2 REGISTER
RegisterConcurrencyMsg(a, mode, handler, conc, maxL, maxS) ==
    [ address |-> a, metadata |-> NoMeta, mode |-> mode, wake_handler |-> handler,
      concurrency |-> conc, max_listeners |-> maxL, max_sessions |-> maxS ]

\* the session of a broadcaster address, and the address whose session has id
SessionOf(r, a) == IF a \in DOMAIN r.broadcasts THEN r.broadcasts[a] ELSE [ callId |-> NoCall, broadcaster |-> NoConn, listeners |-> {} ]
SessionAddress(r, id) ==
    IF \E a \in DOMAIN r.broadcasts : r.broadcasts[a].callId = id
    THEN CHOOSE a \in DOMAIN r.broadcasts : r.broadcasts[a].callId = id
    ELSE NoAddr

\* 4.4: the broadcaster leaves: HANGUP to every listener, their activeCallIds
\* cleared, the session destroyed
endBroadcast(r, a, reason) ==
    IF a \notin DOMAIN r.broadcasts THEN r
    ELSE LET s == r.broadcasts[a]
             r1 == SendAll(r, s.listeners, [Frame(NoConn, "HANGUP") EXCEPT
                                               !.call_id = s.callId, !.reason = reason])
             r2 == LeaveAll(r1, s.listeners \cup {s.broadcaster}, s.callId)
         IN [r2 EXCEPT !.broadcasts = MapDelete(@, a)]

\* 4.4: a listener leaves: HANGUP to it and to the broadcaster; the session is
\* torn down when its listener set becomes empty
removeListener(r, a, c, reason) ==
    LET s == r.broadcasts[a]
        r1 == Send(r, [Frame(c, "HANGUP") EXCEPT !.call_id = s.callId, !.reason = reason])
        r2 == Send(r1, [Frame(s.broadcaster, "HANGUP") EXCEPT
                           !.call_id = s.callId, !.from = r.conn[c].address,
                           !.reason = reason])
        r3 == leaveCall(r2, c, s.callId)
    IN IF s.listeners = {c}
       THEN [leaveCall(r3, s.broadcaster, s.callId) EXCEPT !.broadcasts = MapDelete(@, a)]
       ELSE [r3 EXCEPT !.broadcasts[a].listeners = @ \ {c}]

handleRegisterConcurrency(r, c, msg) ==
    IF ~isValidAddress(msg.address) THEN handleRegister(r, c, msg)
    ELSE IF msg.concurrency \notin ConcurrencyMode \cup {"undefined"}
    THEN sendInvalidPayload(r, c, "REGISTER")
    ELSE IF msg.max_listeners # Unset
            /\ (msg.concurrency # "broadcast" \/ msg.max_listeners <= 0)
    THEN sendInvalidPayload(r, c, "REGISTER")
    ELSE IF msg.max_sessions # Unset
            /\ (msg.concurrency # "parallel" \/ msg.max_sessions <= 0)
    THEN sendInvalidPayload(r, c, "REGISTER")
    ELSE LET r1 == handleRegister(r, c, msg)
             bound == r1.conn[c].address = msg.address
                      /\ \E i \in 1..Len(r1.sent) : r1.sent[i].type = "REGISTERED"
             old == r.conn[c].address
             mode == IF msg.concurrency = "undefined" THEN "single" ELSE msg.concurrency
             \* re-registering without broadcast concurrency, or under another
             \* address, ends the session the connection was broadcasting
             r2 == IF old # NoAddr /\ (mode # "broadcast" \/ old # msg.address)
                   THEN endBroadcast(r1, old, "reconfigured")
                   ELSE r1
         IN IF ~bound THEN r1
            ELSE [r2 EXCEPT !.concurrency[c] =
                     [ mode |-> mode, max_listeners |-> msg.max_listeners,
                       max_sessions |-> msg.max_sessions ]]

\* ------------------------------------------------------ 4.3 and 4.4: DIAL
\* create Call as with single: both sides enter it, RING, ring timeout
startCallOf(r, caller, callee, metadata, callId) ==
    LET r1 == createCall(r, caller, callee, metadata, callId)
        r2 == enterCall(enterCall(r1, caller, callId), callee, callId)
        r3 == scheduleCallTimeout(r2, callId)
    IN Send(r3, [Frame(callee, "RING") EXCEPT !.from = r3.conn[caller].address,
                                               !.call_id = callId,
                                               !.metadata = metadata])

\* SessionFull that finds room whatever the size of the session
SessionNeverFull(r, callee) == FALSE

\* the session is full for a caller that is not yet one of its listeners
SessionFull(r, callee) ==
    /\ r.concurrency[callee].max_listeners # Unset
    /\ Cardinality(SessionOf(r, r.conn[callee].address).listeners)
          >= r.concurrency[callee].max_listeners

\* 4.4 Join
joinBroadcast(r, caller, callee, msg) ==
    LET a == r.conn[callee].address
        fresh == a \notin DOMAIN r.broadcasts
        id == IF fresh THEN r.nextCallId ELSE r.broadcasts[a].callId
        r1 == IF fresh
              THEN enterCall([r EXCEPT !.nextCallId = @ + 1,
                                       !.broadcasts = MapPut(@, a,
                                           [ callId |-> id, broadcaster |-> callee,
                                             listeners |-> {} ])],
                             callee, id)
              ELSE r
        connected == [Frame(caller, "CONNECTED") EXCEPT !.call_id = id, !.to = a]
    IN IF caller \in SessionOf(r, a).listeners THEN Send(r, connected)
       ELSE LET r2 == [r1 EXCEPT !.broadcasts[a].listeners = @ \cup {caller}]
                r3 == enterCall(r2, caller, id)
                r4 == Send(r3, connected)
            IN Send(r4, [Frame(callee, "RING") EXCEPT !.from = r4.conn[caller].address,
                                                       !.call_id = id,
                                                       !.metadata = msg.metadata])

CapReason(mode) ==
    CASE mode = "single" -> "already_in_call"
      [] mode = "parallel" -> "max_sessions_reached"
      [] mode = "broadcast" -> "max_listeners_reached"

\* AtCap with a parallel cap that is one too high
AtCapOffByOne(r, caller, callee) ==
    LET k == r.concurrency[callee]
    IN CASE k.mode = "single" -> r.activeCallIds[callee] # {}
         [] k.mode = "parallel" ->
               k.max_sessions # Unset
               /\ Cardinality(r.activeCallIds[callee]) > k.max_sessions
         [] k.mode = "broadcast" ->
               caller \notin SessionOf(r, r.conn[callee].address).listeners
               /\ SessionFull(r, callee)

\* the callee is at the cap of its concurrency mode
AtCap(r, caller, callee) ==
    LET k == r.concurrency[callee]
    IN CASE k.mode = "single" -> r.activeCallIds[callee] # {}
         [] k.mode = "parallel" ->
               k.max_sessions # Unset
               /\ Cardinality(r.activeCallIds[callee]) >= k.max_sessions
         [] k.mode = "broadcast" ->
               caller \notin SessionOf(r, r.conn[callee].address).listeners
               /\ SessionFull(r, callee)

handleDialConcurrency(r, c, msg) ==
    IF Len(msg.to) = 0 THEN sendInvalidPayload(r, c, "DIAL")
    ELSE
      LET lim == isDialRateLimited(r, c)
          r1 == lim.r
          caller == c
          callee == getByAddress(r1, msg.to)
      IN IF lim.limited THEN r1
         ELSE IF r1.conn[caller].address = NoAddr THEN r1
         ELSE IF callee = NoConn
         THEN LET w == tryWakeSleepingAgent(r1, caller, msg.to, msg.metadata)
              IN IF w.woke THEN w.r ELSE Busy(r1, caller, msg.to, "no_such_address")
         ELSE IF callee = caller THEN Busy(r1, caller, msg.to, "already_in_call")
         ELSE IF AtCap(r1, caller, callee)
         THEN Busy(r1, caller, msg.to, CapReason(r1.concurrency[callee].mode))
         ELSE IF r1.conn[callee].status = "dnd" THEN Busy(r1, caller, msg.to, "dnd")
         ELSE IF r1.conn[callee].status = "away" THEN Busy(r1, caller, msg.to, "away")
         ELSE IF r1.conn[callee].status = "busy" /\ Overridden(r1, callee)
         THEN Busy(r1, caller, msg.to, "busy")
         ELSE IF r1.concurrency[callee].mode = "broadcast"
         THEN joinBroadcast(r1, caller, callee, msg)
         ELSE startCallOf([r1 EXCEPT !.nextCallId = @ + 1], caller, callee,
                          msg.metadata, r1.nextCallId)

\* ------------------------------------------------ 4.3: ANSWER, HANGUP, MSG
handleAnswerConcurrency(r, c, msg) ==
    IF msg.call_id = NoCall THEN sendInvalidPayload(r, c, "ANSWER")
    ELSE IF getCall(r, msg.call_id) = NoCall THEN r
    ELSE IF r.calls[msg.call_id].callee # c THEN r
    ELSE IF r.calls[msg.call_id].state # "ringing" THEN r
    ELSE LET call == r.calls[msg.call_id]
             r1 == clearCallTimer(r, msg.call_id)
             r2 == setConnected(r1, msg.call_id)
         IN Send(r2, [Frame(call.caller, "CONNECTED") EXCEPT
                         !.call_id = msg.call_id, !.to = r2.conn[call.callee].address])

\* a point-to-point call ends: both sides leave it and its record is released
finishCall(r, callId) ==
    LET call == r.calls[callId]
        r1 == clearCallTimer(r, callId)
        r2 == endCall(r1, callId)
        r3 == leaveCall(leaveCall(r2, call.caller, callId), call.callee, callId)
    IN release(r3, callId)

handleHangupConcurrency(r, c, msg) ==
    LET reason == IF msg.reason = "undefined" THEN "normal" ELSE msg.reason
        a == SessionAddress(r, msg.call_id)
    IN IF msg.call_id = NoCall THEN sendInvalidPayload(r, c, "HANGUP")
       ELSE IF getCall(r, msg.call_id) # NoCall
       THEN LET call == r.calls[msg.call_id]
            IN IF call.state = "ended" THEN r
               ELSE IF call.caller # c /\ call.callee # c THEN r
               ELSE finishCall(Send(r, [Frame(OtherParty(call, c), "HANGUP") EXCEPT
                                           !.call_id = msg.call_id, !.reason = reason]),
                               msg.call_id)
       ELSE IF a = NoAddr THEN r
       ELSE IF r.broadcasts[a].broadcaster = c THEN endBroadcast(r, a, reason)
       ELSE IF c \in r.broadcasts[a].listeners THEN removeListener(r, a, c, reason)
       ELSE r

handleMsgConcurrency(r, c, msg) ==
    LET a == SessionAddress(r, msg.call_id)
        out == [Frame(NoConn, "MSG") EXCEPT
                   !.call_id = msg.call_id,
                   !.from = r.conn[c].address,
                   !.data = msg.data,
                   !.content_type = IF msg.content_type = "undefined" THEN "text"
                                    ELSE msg.content_type]
    IN IF msg.call_id = NoCall THEN sendInvalidPayload(r, c, "MSG")
       ELSE IF msg.content_type \notin {"undefined", "text", "json", "binary"}
       THEN sendInvalidPayload(r, c, "MSG")
       ELSE IF getCall(r, msg.call_id) # NoCall
       THEN LET call == r.calls[msg.call_id]
            IN IF call.state # "connected" THEN r
               ELSE IF call.caller # c /\ call.callee # c THEN r
               ELSE Send(r, [out EXCEPT !.dest = OtherParty(call, c)])
       ELSE IF a = NoAddr THEN r
       \* broadcaster -> MSG: fan out to every listener
       ELSE IF r.broadcasts[a].broadcaster = c THEN SendAll(r, r.broadcasts[a].listeners, out)
       \* listener -> MSG: delivered only to the broadcaster
       ELSE IF c \in r.broadcasts[a].listeners
       THEN Send(r, [out EXCEPT !.dest = r.broadcasts[a].broadcaster])
       ELSE r

\* ring timeout: BUSY{timeout} to the caller, HANGUP{timeout} to the callee
handleCallTimeoutConcurrency(r, callId) ==
    IF getCall(r, callId) = NoCall \/ r.calls[callId].state # "ringing" THEN r
    ELSE LET call == r.calls[callId]
             r1 == Busy(r, call.caller, r.conn[call.callee].address, "timeout")
             r2 == Send(r1, [Frame(call.callee, "HANGUP") EXCEPT
                                !.call_id = callId, !.reason = "timeout"])
         IN finishCall(r2, callId)

\* ------------------------------------------------------------ 4.9 disconnect
\* step 4 for one call id of the connection
dropCall(r, c, id, reason) ==
    LET a == SessionAddress(r, id)
    IN IF getCall(r, id) # NoCall
       THEN finishCall(Send(r, [Frame(OtherParty(r.calls[id], c), "HANGUP") EXCEPT
                                   !.call_id = id, !.reason = reason]), id)
       ELSE IF a = NoAddr THEN r
       ELSE IF r.broadcasts[a].broadcaster = c THEN endBroadcast(r, a, reason)
       ELSE IF c \in r.broadcasts[a].listeners THEN removeListener(r, a, c, reason)
       ELSE r

RECURSIVE DropCalls(_, _, _, _)
DropCalls(r, c, ids, reason) ==
    IF ids = {} THEN r
    ELSE LET id == CHOOSE x \in ids : \A y \in ids : x <= y
         IN DropCalls(dropCall(r, c, id, reason), c, ids \ {id}, reason)

disconnectConcurrency(r, c, reason) ==
    LET k == r.conn[c]
        r0 == [r EXCEPT !.sleepTimers[c] = "none"]
        r1 == IF reason = "timeout" /\ k.wakeMode = "wake_on_ring"
                 /\ k.wakeHandler # NoHandler /\ k.address # NoAddr
              THEN storeWakeProfile(r0, c)
              ELSE r0
        r2 == registryDisconnect(r1, c)
        r3 == [r2 EXCEPT !.dialCounters = MapDelete(@, c)]
        r4 == DropCalls(r3, c, r3.activeCallIds[c], reason)
        r5 == cancelPendingWakeCallsForCaller(r4, c, reason)
    IN [r5 EXCEPT !.activeCallIds[c] = {},
                  !.sockets[c] = IF @ = "open" THEN "closing" ELSE @,
                  !.closed = Append(@, [ dest |-> c, code |-> 4000, reason |-> reason ])]

\* ------------------------------------------- 4.2: the other address frames
handleStatusConcurrency(r, c, msg) ==
    IF msg.status \notin VALID_STATUSES \/ msg.auto_sleep = "invalid"
    THEN handleStatus(r, c, msg)
    ELSE armIdleTimer(handleStatus(r, c, msg), c)

handleHeartbeatConcurrency(r, c) == armIdleTimer(handleHeartbeat(r, c), c)

handleUnregisterConcurrency(r, c) ==
    LET k == r.conn[c]
        r1 == IF k.wakeMode = "wake_on_ring" /\ k.wakeHandler # NoHandler
                 /\ k.address # NoAddr
              THEN storeWakeProfile(r, c)
              ELSE r
    IN disconnectConcurrency(r1, c, "client_requested")

\* ----------------------------------------------------------- 4.6 auto-sleep
\* the idle timer fires: SLEEP_PENDING, and the second timer is armed
idleTimerFired(r, c) ==
    IF r.sleepTimers[c] # "idle" THEN r
    ELSE Send([r EXCEPT !.sleepTimers[c] = "pending"],
              [Frame(c, "SLEEP_PENDING") EXCEPT !.reason = "idle_timeout"])

\* the second timer fires: persist the WakeProfile, disconnect with reason sleep
sleepTimerFired(r, c) ==
    IF r.sleepTimers[c] # "pending" THEN r
    ELSE disconnectConcurrency(storeWakeProfile(r, c), c, "sleep")

\* ------------------------------------------------------------------ actions
\* what a handler leaves behind; the tables of a connection whose socket is
\* closed are unobservable
CommitAll(r) ==
    /\ CommitTables(r)
    /\ concurrency' = [c \in Conns |->
          IF r.sockets[c] = "closed" THEN SingleMode ELSE r.concurrency[c]]
    /\ activeCallIds' = r.activeCallIds
    /\ broadcasts' = r.broadcasts
    /\ sleepTimers' = r.sleepTimers
    /\ UNCHANGED << peer, dialLog >>

OpenConcurrency(c) ==
    /\ sockets[c] = "unused"
    /\ \A d \in Conns : d < c => sockets[d] # "unused"
    /\ CommitAll(createConnection([CurAll EXCEPT !.sockets[c] = "open"], c))

RegisterConcurrency(c, a, mode, handler, conc, maxL, maxS) ==
    /\ sockets[c] = "open"
    /\ CommitAll(handleRegisterConcurrency(CurAll, c,
                    RegisterConcurrencyMsg(a, mode, handler, conc, maxL, maxS)))

StatusConcurrency(c, st, as) ==
    /\ sockets[c] = "open"
    /\ CommitAll(handleStatusConcurrency(CurAll, c, StatusMsg(st, as)))

HeartbeatConcurrency(c) ==
    /\ sockets[c] = "open"
    /\ CommitAll(handleHeartbeatConcurrency(CurAll, c))

UnregisterConcurrency(c) ==
    /\ sockets[c] = "open"
    /\ CommitAll(handleUnregisterConcurrency(CurAll, c))

DialConcurrency(c, to) ==
    /\ sockets[c] = "open"
    /\ nextCallId <= MaxCalls
    /\ CommitAll(handleDialConcurrency(CurAll, c, DialMsg(to, DialMetadata(c))))

AnswerConcurrency(c, id) ==
    /\ sockets[c] = "open"
    /\ CommitAll(handleAnswerConcurrency(CurAll, c, AnswerMsg(id)))

HangupConcurrency(c, id, reason) ==
    /\ sockets[c] = "open"
    /\ CommitAll(handleHangupConcurrency(CurAll, c, HangupMsg(id, reason)))

MsgConcurrency(c, id, ct) ==
    /\ sockets[c] = "open"
    /\ CommitAll(handleMsgConcurrency(CurAll, c, MsgMsg(id, "d", ct)))

SocketCloseConcurrency(c) ==
    /\ sockets[c] \in {"open", "closing"}
    /\ CommitAll(disconnectConcurrency([CurAll EXCEPT !.sockets[c] = "closed"], c,
                                       "peer_disconnected"))

RingTimeoutConcurrency(id) ==
    /\ id \in ringTimeouts
    /\ CommitAll(handleCallTimeoutConcurrency([CurAll EXCEPT !.ringTimeouts = @ \ {id}], id))

IdleTimerFires(c) ==
    /\ sleepTimers[c] = "idle"
    /\ CommitAll(idleTimerFired(CurAll, c))

SleepTimerFires(c) ==
    /\ sleepTimers[c] = "pending"
    /\ CommitAll(sleepTimerFired(CurAll, c))

\* ----------------------------------------------- broadcast and parallel
\* connection 1 registers with a concurrency mode and a cap, the others plainly
ConcurrencyInputs(c) ==
    IF c = 1 THEN { << "broadcast", 1, Unset >>, << "broadcast", 2, Unset >>,
                    << "parallel", Unset, 1 >>, << "parallel", Unset, 2 >>,
                    << "parallel", 2, Unset >>, << "single", Unset, 0 >> }
    ELSE { << "undefined", Unset, Unset >> }
ConcurrencyAddrs(c) == IF c = 1 THEN {A1} ELSE IF c = 2 THEN {A2} ELSE {A3}

NextConcurrency ==
    \/ \E c \in Conns : OpenConcurrency(c)
    \/ \E c \in Conns : \E a \in ConcurrencyAddrs(c), k \in ConcurrencyInputs(c) :
          RegisterConcurrency(c, a, "undefined", NoHandler, k[1], k[2], k[3])
    \/ \E st \in {"dnd", "available"} : StatusConcurrency(1, st, "undefined")
    \/ \E c \in Conns, to \in Addrs : DialConcurrency(c, to)
    \/ \E c \in Conns, id \in CallIdInputs : AnswerConcurrency(c, id)
    \/ \E c \in Conns, id \in CallIdInputs : HangupConcurrency(c, id, "bye")
    \/ \E c \in Conns, id \in CallIdInputs : MsgConcurrency(c, id, "json")
    \/ \E c \in Conns : UnregisterConcurrency(c)
    \/ \E c \in Conns : SocketCloseConcurrency(c)
    \/ \E id \in CallIdInputs : RingTimeoutConcurrency(id)

SpecConcurrency == Init /\ [][NextConcurrency]_vars

\* ------------------------------------------------------------------ C27
\* the connections registered with concurrency broadcast and a listener cap
\* that accept a dial
Broadcasters ==
    { b \in OpenConns : /\ Registered(b)
                        /\ concurrency[b].mode = "broadcast"
                        /\ concurrency[b].max_listeners # Unset
                        /\ connections[b].status \notin {"dnd", "away"}
                        /\ ~Overridden(CurAll, b) }

\* the frames of sent addressed to c, in order
FramesTo(sent, c) == SelectSeq(sent, LAMBDA f : f.dest = c)

\* C27: for an address registered with concurrency broadcast and
\* max_listeners = N, a DIAL from a registered caller that is not yet a
\* listener is answered, while the session has fewer than N listeners, with
\* exactly CONNECTED{call_id: the session's id, to: the address}, the same id
\* every listener of the session holds, and makes the caller a listener; with
\* N listeners it is answered with exactly BUSY{max_listeners_reached} and
\* changes nothing; and a MSG of
\* the broadcaster on the session's id is sent exactly once to each listener,
\* with from = the broadcaster's address, and to nobody else.
C27_BroadcastFanOutWithCap ==
    \A b \in Broadcasters :
        LET a == connections[b].address
            s == SessionOf(CurAll, a)
            N == concurrency[b].max_listeners
        IN /\ \A l \in s.listeners : s.callId \in activeCallIds[l]
           /\ \A c \in OpenConns \ ({b} \cup s.listeners) :
                 Registered(c) =>
                    LET r == handleDialConcurrency(CurAll, c, DialMsg(a, NoMeta))
                    IN IF Cardinality(s.listeners) < N
                       THEN /\ FramesTo(r.sent, c) =
                                  << [Frame(c, "CONNECTED") EXCEPT
                                         !.call_id = r.broadcasts[a].callId, !.to = a] >>
                            /\ s.callId # NoCall => r.broadcasts[a].callId = s.callId
                            /\ s.callId = NoCall => r.broadcasts[a].callId = nextCallId
                            /\ r.broadcasts[a].listeners = s.listeners \cup {c}
                            /\ r.broadcasts[a].callId \in r.activeCallIds[c]
                       ELSE /\ r.sent = << [Frame(c, "BUSY") EXCEPT
                                              !.to = a, !.reason = "max_listeners_reached"] >>
                            /\ [r EXCEPT !.sent = << >>] = CurAll
           /\ s.callId # NoCall =>
                 \A ct \in MsgContentTypes :
                    LET r == handleMsgConcurrency(CurAll, b, MsgMsg(s.callId, "d", ct))
                    IN /\ [r EXCEPT !.sent = << >>] = CurAll
                       /\ Len(r.sent) = Cardinality(s.listeners)
                       /\ \A l \in s.listeners :
                             FramesTo(r.sent, l) =
                                << [Frame(l, "MSG") EXCEPT
                                       !.call_id = s.callId, !.from = a, !.data = "d",
                                       !.content_type = IF ct = "undefined" THEN "text"
                                                        ELSE ct] >>

\* a broadcaster with max_listeners 2 whose session holds both other
\* connections under one call id
C27_Witness ==
    \E b \in Broadcasters :
        /\ concurrency[b].max_listeners = 2
        /\ Cardinality(SessionOf(CurAll, connections[b].address).listeners) = 2
        /\ \A l \in SessionOf(CurAll, connections[b].address).listeners :
              sockets[l] = "open"

\* ------------------------------------------------------------------ C28
\* the connections registered with concurrency parallel and a session cap
\* that accept a dial
ParallelCallees ==
    { p \in OpenConns : /\ Registered(p)
                        /\ concurrency[p].mode = "parallel"
                        /\ concurrency[p].max_sessions # Unset
                        /\ connections[p].status \notin {"dnd", "away"}
                        /\ ~Overridden(CurAll, p) }

\* the dial of caller c to callee p is delivered as one RING with a call id
\* that no call or session of r0 has, and answered with nothing else
Rings(r0, r, c, p) ==
    /\ r.sent = << [Frame(p, "RING") EXCEPT !.from = r0.conn[c].address,
                                            !.call_id = r0.nextCallId] >>
    /\ r0.nextCallId \notin DOMAIN r0.calls
    /\ \A a \in DOMAIN r0.broadcasts : r0.broadcasts[a].callId # r0.nextCallId
    /\ r0.nextCallId \notin r0.activeCallIds[p]
    /\ r.calls[r0.nextCallId] = [ caller |-> c, callee |-> p, metadata |-> NoMeta,
                                  state |-> "ringing" ]
    /\ r.activeCallIds[p] = r0.activeCallIds[p] \cup {r0.nextCallId}

\* C28: for an address registered with concurrency parallel and
\* max_sessions = N, a DIAL from another registered connection is delivered
\* as exactly one RING{from, call_id} with a call id of its own while the
\* callee has fewer than N active calls; with N active calls it is answered
\* with exactly BUSY{max_sessions_reached} and changes nothing; and once a
\* party of one of those N calls has hung it up, the next DIAL is delivered
\* as a RING again.
C28_ParallelSessionsWithCap ==
    \A p \in ParallelCallees :
        LET a == connections[p].address
            N == concurrency[p].max_sessions
        IN \A c \in OpenConns \ {p} :
              Registered(c) =>
                 LET r == handleDialConcurrency(CurAll, c, DialMsg(a, NoMeta))
                 IN IF Cardinality(activeCallIds[p]) < N
                    THEN Rings(CurAll, r, c, p)
                    ELSE /\ r.sent = << [Frame(c, "BUSY") EXCEPT
                                            !.to = a, !.reason = "max_sessions_reached"] >>
                         /\ [r EXCEPT !.sent = << >>] = CurAll
                         /\ Cardinality(activeCallIds[p]) = N =>
                               \A id \in activeCallIds[p], h \in OpenConns :
                                  id \in DOMAIN calls /\ h \in Parties(calls[id]) =>
                                     LET r1 == [handleHangupConcurrency(CurAll, h,
                                                   HangupMsg(id, "undefined"))
                                                EXCEPT !.sent = << >>]
                                     IN Rings(r1, handleDialConcurrency(r1, c,
                                                     DialMsg(a, NoMeta)), c, p)

\* a callee with max_sessions 2 in two calls with different callers, one of
\* them answered
C28_Witness ==
    \E p \in ParallelCallees :
        /\ concurrency[p].max_sessions = 2
        /\ Cardinality(activeCallIds[p]) = 2
        /\ \A id \in activeCallIds[p] : id \in DOMAIN calls /\ calls[id].callee = p
        /\ \E id \in activeCallIds[p] : calls[id].state = "connected"
        /\ Cardinality({calls[id].caller : id \in activeCallIds[p]}) = 2
        /\ \A c \in Conns \ {p} : sockets[c] = "open" /\ Registered(c)


\* ------------------------------------------------------------ auto-sleep
\* connection 1 registers with a wake handler and asks for auto-sleep; the
\* others register plainly, and connection 2 may take over the address of
\* connection 1 once that is free.  Nobody dials the address of connection 1.
AutoSleepAddrs(c) == IF c = 1 THEN {A1} ELSE IF c = 2 THEN {A2, A1} ELSE {A3}
AutoSleepModes(c) ==
    IF c = 1 THEN { << "wake_on_ring", Webhook >> } ELSE { << "undefined", NoHandler >> }
AutoSleepRequests(c) ==
    IF c = 1 THEN {"wake_on_ring", "no_wake_on_ring", "undefined"} ELSE {}
AutoSleepTargets == {A2, A3}
\* the connections that ask for auto-sleep, the only ones with timers to fire
AutoSleepers == {c \in Conns : "wake_on_ring" \in AutoSleepRequests(c)}

NextAutoSleep ==
    \/ \E c \in Conns : OpenConcurrency(c)
    \/ \E c \in Conns : \E a \in AutoSleepAddrs(c), m \in AutoSleepModes(c) :
          RegisterConcurrency(c, a, m[1], m[2], "undefined", Unset, Unset)
    \/ \E c \in Conns : \E st \in {"available", "dnd"}, as \in AutoSleepRequests(c) :
          StatusConcurrency(c, st, as)
    \/ \E c \in Conns : HeartbeatConcurrency(c)
    \/ \E c \in Conns, to \in AutoSleepTargets : DialConcurrency(c, to)
    \/ \E c \in Conns, id \in CallIdInputs : AnswerConcurrency(c, id)
    \/ \E c \in Conns, id \in CallIdInputs : HangupConcurrency(c, id, "undefined")
    \/ \E c \in Conns : SocketCloseConcurrency(c)
    \/ \E c \in AutoSleepers : IdleTimerFires(c)
    \/ \E c \in AutoSleepers : SleepTimerFires(c)

SpecAutoSleep == Init /\ [][NextAutoSleep]_vars

\* A timer that is armed and not cleared fires
SpecAutoSleepFair ==
    /\ SpecAutoSleep
    /\ \A c \in AutoSleepers : WF_vars(IdleTimerFires(c)) /\ WF_vars(SleepTimerFires(c))

\* ------------------------------------------------------------------ C29
\* the wake-configured registered connections
WakeAgents ==
    { c \in OpenConns : /\ Registered(c)
                        /\ connections[c].wakeMode = "wake_on_ring"
                        /\ connections[c].wakeHandler # NoHandler }

SleepPendingTo(c) == [Frame(c, "SLEEP_PENDING") EXCEPT !.reason = "idle_timeout"]

NoSleepPending(sent) == \A i \in 1..Len(sent) : sent[i].type # "SLEEP_PENDING"

\* a handler has cancelled the pending sleep of c: the second timer is not
\* armed, nothing was sent about sleeping and no transport was closed
Cancelled(r, c) ==
    /\ r.sleepTimers[c] # "pending"
    /\ r.sleepTimers[c] = "idle" <=>
          r.conn[c].autoSleep = "wake_on_ring" /\ r.activeCallIds[c] = {}
    /\ NoSleepPending(r.sent)
    /\ r.closed = << >>
    /\ r.wakeProfiles = wakeProfiles

\* the steps of auto-sleep, each taken from any state in which it can be taken
AutoSleepSteps ==
    \A c \in WakeAgents :
        \* STATUS with auto_sleep{wake_on_ring: true} from an idle connection
        \* arms the idle timer
        /\ \A st \in VALID_STATUSES :
              activeCallIds[c] = {} =>
                 LET r == handleStatusConcurrency(CurAll, c, StatusMsg(st, "wake_on_ring"))
                 IN r.sleepTimers[c] = "idle" /\ NoSleepPending(r.sent) /\ r.closed = << >>
        \* a timer is armed only for an idle connection that asked for it
        /\ sleepTimers[c] # "none" =>
              connections[c].autoSleep = "wake_on_ring" /\ activeCallIds[c] = {}
        \* the idle timer fires: exactly one SLEEP_PENDING, second timer armed
        /\ sleepTimers[c] = "idle" =>
              LET r == idleTimerFired(CurAll, c)
              IN /\ r.sent = << SleepPendingTo(c) >>
                 /\ r = [CurAll EXCEPT !.sent = r.sent, !.sleepTimers[c] = "pending"]
        \* while the second timer runs no idle timer is armed, so that no
        \* second SLEEP_PENDING follows
        /\ sleepTimers[c] = "pending" => idleTimerFired(CurAll, c) = CurAll
        \* the second timer fires: profile persisted, disconnected with reason sleep
        /\ sleepTimers[c] = "pending" =>
              LET r == sleepTimerFired(CurAll, c)
                  a == connections[c].address
              IN /\ r.closed = << [ dest |-> c, code |-> 4000, reason |-> "sleep" ] >>
                 /\ a \in DOMAIN r.wakeProfiles
                 /\ r.wakeProfiles[a] = connections[c].wakeHandler
                 /\ c \notin r.bySession
                 /\ a \notin DOMAIN r.byAddress
                 /\ r.sleepTimers[c] = "none"
                 /\ NoSleepPending(r.sent)
        \* a heartbeat, a STATUS or a call in either phase cancels
        /\ sleepTimers[c] \in {"idle", "pending"} =>
              /\ Cancelled(handleHeartbeatConcurrency(CurAll, c), c)
              /\ \A st \in VALID_STATUSES, as \in {"undefined", "wake_on_ring", "no_wake_on_ring"} :
                    Cancelled(handleStatusConcurrency(CurAll, c, StatusMsg(st, as)), c)
              /\ \A to \in Addrs :
                    LET r == handleDialConcurrency(CurAll, c, DialMsg(to, NoMeta))
                    IN r.activeCallIds[c] # {} => Cancelled(r, c) /\ r.sleepTimers[c] = "none"
              /\ \A d \in OpenConns \ {c} :
                    LET r == handleDialConcurrency(CurAll, d,
                                DialMsg(connections[c].address, NoMeta))
                    IN r.activeCallIds[c] # {} => Cancelled(r, c) /\ r.sleepTimers[c] = "none"

\* C29: a wake-configured connection that sent STATUS with
\* auto_sleep{wake_on_ring: true} has its idle timer armed; the idle timer,
\* unless cancelled, eventually fires and sends exactly one
\* SLEEP_PENDING{reason: idle_timeout}; the second timer, unless cancelled,
\* eventually fires, persists the WakeProfile and disconnects with reason
\* sleep; a heartbeat, STATUS or call in either phase cancels the pending sleep.
C29_AutoSleep ==
    /\ []AutoSleepSteps
    /\ \A c \in AutoSleepers :
          /\ (sleepTimers[c] = "idle") ~> (sleepTimers[c] # "idle")
          /\ (sleepTimers[c] = "pending") ~> (sleepTimers[c] # "pending")

\* the agent was put to sleep by its second timer: its profile is stored and
\* its transport is being closed (nothing else stores a profile here)
C29_Witness ==
    /\ A1 \in DOMAIN wakeProfiles
    /\ sockets[1] = "closing"
    /\ A1 \notin DOMAIN connectionsByAddress

\* ------------------------------------------------------------------ C33
RingingCalls == {id \in DOMAIN calls : calls[id].state = "ringing"}

\* C33: in every reachable state a ring timer is armed for a call id exactly
\* when that call is in the call table in state ringing, and a wake timer is
\* armed exactly for the pending wake calls still queued; so a ring timer that
\* fires finds its call ringing, and a wake timer that fires finds its pending
\* call in the by-id index and in the queue of its callee address.
C33_NoTimerOutlivesItsCall ==
    /\ ringTimeouts = RingingCalls
    /\ callTimers = RingingCalls
    /\ wakeTimeouts = DOMAIN pendingWakeCallsById
    /\ wakeTimeouts = Queued(pendingWakeCallsByAddress)

C33_Witness ==
    /\ \E id \in DOMAIN calls : calls[id].state = "connected" /\ id \notin ringTimeouts
    /\ ringTimeouts # {}
    /\ wakeTimeouts # {}
    /\ nextCallId > MaxCalls

\* ------------------------------------------------------------------ C34
\* a DIAL frame of c, and a note of the time when isDialRateLimited lets it pass
DialLogged(c, to) ==
    /\ sockets[c] = "open"
    /\ nextCallId <= MaxCalls
    /\ c \in DOMAIN dialCounters => dialCounters[c].count <= MaxDials
    /\ CommitTables(handleDial(Cur, c, DialMsg(to, DialMetadata(c))))
    /\ dialLog' = IF Len(to) = 0 \/ isDialRateLimited(Cur, c).limited THEN dialLog
                  ELSE [dialLog EXCEPT ![c] = Append(@, clock)]
    /\ UNCHANGED << concurrency, activeCallIds, broadcasts, sleepTimers, peer >>

\* Clients that dial while the clock advances, with the passed attempts noted
NextLimiter ==
    \/ \E c \in Conns : Open(c)
    \/ \E c \in Conns : \E a \in RegisterAddrs(c), m \in PlainModes : Register(c, a, m[1], m[2])
    \/ \E c \in RateCallers, to \in DialTargets : DialLogged(c, to)
    \/ \E c \in Conns : SocketClose(c)
    \/ \E id \in CallIds : RingTimeout(id)
    \/ Tick

SpecLimiter == InitRate /\ [][NextLimiter]_vars

\* the number of DIAL frames of c sent at a time in lo..hi that passed the limiter
Passed(c, lo, hi) == Cardinality({i \in 1..Len(dialLog[c]) : dialLog[c][i] \in lo..hi})

\* C34 as stated: in every interval of length windowMs at most maxAttempts DIAL
\* frames of a session pass the limiter.
C34_SlidingWindow ==
    \A c \in Conns, t \in 0..MaxTime :
        Passed(c, t, t + options.dialWindowMs) <= options.dialMaxAttempts

\* C34: the limiter counts in windows that start at the first attempt after the
\* previous window expired: of the DIAL frames a session sends from windowStart
\* through windowStart + windowMs exactly the first maxAttempts pass, an interval
\* of length windowMs meets at most two such windows, and so at most
\* 2 * maxAttempts DIAL frames sent inside it pass.
C34_FixedWindow ==
    \A c \in Conns :
        /\ c \in DOMAIN dialCounters =>
              LET e == dialCounters[c]
              IN /\ Passed(c, e.windowStart, e.windowStart + options.dialWindowMs)
                       = IF e.count <= options.dialMaxAttempts THEN e.count
                         ELSE options.dialMaxAttempts
                 /\ Passed(c, e.windowStart, MaxTime)
                       = Passed(c, e.windowStart, e.windowStart + options.dialWindowMs)
        /\ \A t \in 0..MaxTime :
              Passed(c, t, t + options.dialWindowMs) <= 2 * options.dialMaxAttempts

\* a session that had maxAttempts DIAL frames pass in one window and one more
\* in the next, all of them inside one interval of length windowMs or less,
\* and a DIAL refused in between
C34_Witness ==
    \E c \in Conns, t \in 0..MaxTime :
        /\ c \in DOMAIN dialCounters
        /\ dialCounters[c].windowStart > 0
        /\ Passed(c, t, t + options.dialWindowMs) > options.dialMaxAttempts
        /\ Passed(c, 0, MaxTime) = 2 * options.dialMaxAttempts

\* ------------------------------------------------------------------ C35
\* C35: every DIAL with a non-empty 'to' from an open connection, registered
\* or not, either starts a call (a new ringing call and RING to the callee),
\* or queues a pending wake call, or is answered with exactly one BUSY or ERROR
\* frame to the sender.
C35_EveryDialIsAccountedFor ==
    \A c \in OpenConns, to \in Addrs :
        LET r == handleDial(Cur, c, DialMsg(to, DialMetadata(c)))
        IN \/ /\ DOMAIN r.calls \ DOMAIN calls # {}
              /\ \E i \in 1..Len(r.sent) : r.sent[i].type = "RING"
           \/ DOMAIN r.pendById \ DOMAIN pendingWakeCallsById # {}
           \/ /\ Len(r.sent) = 1
              /\ r.sent[1].dest = c
              /\ r.sent[1].type \in {"BUSY", "ERROR"}

\* ------------------------------------------------------------------ C36
\* C36: in every reachable state (each one is the state after a frame, socket
\* event or timer has been handled in full) the caller and the callee of every
\* call in the call table are in the session registry.
C36_CallPartiesAreLive ==
    \A id \in DOMAIN calls :
        /\ calls[id].caller \in connectionsBySession
        /\ calls[id].callee \in connectionsBySession

\* ------------------------------------------------------------------ C37
\* the frames of type BUSY and the RING frames of call id that a handler sent
BusyFrames(r) == {i \in 1..Len(r.sent) : r.sent[i].type = "BUSY"}
RingFrames(r, id) ==
    {i \in 1..Len(r.sent) : r.sent[i].type = "RING" /\ r.sent[i].call_id = id}

\* the pending wake calls a handler took out of the by-id index, and those of
\* them it started as calls
LeftPending(r) == DOMAIN pendingWakeCallsById \ DOMAIN r.pendById
StartedPending(r) == {id \in LeftPending(r) : RingFrames(r, id) # {}}

\* A handler that sends at most own BUSY frames for reasons of its own resolves
\* each pending wake call at most once: a pending call it starts gets exactly
\* one RING and is a ringing call of the same caller, one it fails is in no
\* table afterwards, and it sends no more BUSY frames than it fails pending
\* calls; the pending calls it leaves alone stay as they are and ring nowhere.
ResolvesOnce(r, own) ==
    /\ \A id \in StartedPending(r) :
          /\ Cardinality(RingFrames(r, id)) = 1
          /\ id \in DOMAIN r.calls
          /\ r.calls[id].state = "ringing"
          /\ r.calls[id].caller = pendingWakeCallsById[id].caller
    /\ \A id \in LeftPending(r) \ StartedPending(r) : id \notin DOMAIN r.calls
    /\ Cardinality(BusyFrames(r)) <= Cardinality(LeftPending(r) \ StartedPending(r)) + own
    /\ \A id \in DOMAIN r.pendById :
          /\ RingFrames(r, id) = {}
          /\ id \notin DOMAIN r.calls
          /\ id \in r.wakeTimeouts
          /\ IF id \in DOMAIN pendingWakeCallsById
             THEN r.pendById[id] = pendingWakeCallsById[id]
             ELSE id = nextCallId /\ id \notin DOMAIN calls

\* the ids randomUUID() has handed out
UsedCallIds == 1..(nextCallId - 1)

RegisterInputs ==
    {RegisterMsg(a, m[1], m[2]) :
        a \in Addrs \cup {BadAddr},
        m \in ValidRegisterModes \cup { << "wake_on_ring", NoUrlHook >>,
                                        << "wake_on_ring", NoHandler >>,
                                        << "undefined", Webhook >> }}

\* the frames that reject a REGISTER
RegisterRejections(c) ==
    { << [Frame(c, "REGISTER_FAILED") EXCEPT !.reason = "address_in_use"] >>,
      << [Frame(c, "REGISTER_FAILED") EXCEPT !.reason = "invalid_address"] >>,
      << [Frame(c, "ERROR") EXCEPT !.reason = "invalid_payload", !.context = "REGISTER"] >> }

\* C38: a REGISTER that is answered with REGISTER_FAILED{address_in_use},
\* REGISTER_FAILED{invalid_address} or ERROR{invalid_payload} leaves every table
\* of the router as it was: address and session mappings, the connections'
\* fields, the wake-profile store and the pending wake queues.
C38_RejectedRegisterChangesNothing ==
    \A c \in OpenConns, msg \in RegisterInputs :
        LET r == handleRegister(Cur, c, msg)
        IN r.sent \in RegisterRejections(c) => [r EXCEPT !.sent = << >>] = Cur

\* ------------------------------------------------------------------ C39
\* C39: a STATUS frame answered with ERROR{invalid_payload} (an unknown status
\* value, or an auto_sleep failing the type checks) leaves the connection's
\* status and autoSleep settings as they were.
C39_RejectedStatusChangesNothing ==
    \A c \in OpenConns, st \in FullStatusInputs, as \in {"undefined", "invalid", "valid"} :
        LET r == handleStatus(Cur, c, StatusMsg(st, as))
        IN (\E i \in 1..Len(r.sent) :
                r.sent[i].type = "ERROR" /\ r.sent[i].reason = "invalid_payload")
           => /\ r.conn[c].status = connections[c].status
              /\ r.conn[c].autoSleep = connections[c].autoSleep

\* ================================================================ federation
\* FederationPeer (src/unnamed/part_001) and its FederationWebSocketTransport
\* (src/src/federation/websocket.ts).  The peer's handlers are functions of the
\* router's state record extended with the peer; written lists the frames the
\* transport has passed to socket.send and routed the frames the peer has
\* passed to router.handleMessage while the handler under way ran.
CurPeer == Cur @@ [ peer |-> peer, written |-> << >>, routed |-> << >> ]

\* A parsed inbound frame: its type and the fields the handler of that type reads
Inbound(type, msg) == [ type |-> type, msg |-> msg ]

\* switch (message.type) of SystemXRouter.handleMessage
handleMessage(r, c, m) ==
    CASE m.type = "REGISTER" -> handleRegister(r, c, m.msg)
      [] m.type = "STATUS" -> handleStatus(r, c, m.msg)
      [] m.type = "UNREGISTER" -> handleUnregister(r, c)
      [] m.type = "HEARTBEAT" -> handleHeartbeat(r, c)
      [] m.type = "DIAL" -> handleDial(r, c, m.msg)
      [] m.type = "ANSWER" -> handleAnswer(r, c, m.msg)
      [] m.type = "HANGUP" -> handleHangup(r, c, m.msg)
      [] m.type = "MSG" -> handleMsg(r, c, m.msg)
      [] m.type = "PRESENCE" -> handlePresence(r, c, m.msg)
      [] m.type = "SLEEP_ACK" -> handleSleepAck(r, c)
      [] OTHER -> sendInvalidPayload(r, c, "UNKNOWN")

\* ---------------------------------------------- FederationWebSocketTransport
\* send throws unless the transport has a socket and is open; each caller
\* catches and logs
transportSend(r, f) ==
    IF r.peer.socket = NoSocket \/ r.peer.state # "open" THEN r
    ELSE [r EXCEPT !.written = Append(@, f)]

transportClose(r) ==
    IF r.peer.socket = NoSocket THEN r
    ELSE [r EXCEPT !.peer.state = "closing",
                   !.peer.ws[r.peer.socket] = "closing",
                   !.peer.socket = NoSocket]

FreeSockets(r) == {s \in PeerSockets : r.peer.ws[s] = "none"}

\* connect up to the await: a second call while there is a socket returns
transportConnect(r) ==
    IF r.peer.socket # NoSocket THEN r
    ELSE LET s == CHOOSE x \in FreeSockets(r) : \A y \in FreeSockets(r) : x <= y
         IN [r EXCEPT !.peer.state = "connecting",
                      !.peer.ws[s] = "connecting",
                      !.peer.socket = s]

\* ------------------------------------------------------------ FederationPeer
clearHeartbeat(r) == [r EXCEPT !.peer.heartbeatTimer = FALSE]

\* heartbeatIntervalMs > 0
startHeartbeat(r) == [clearHeartbeat(r) EXCEPT !.peer.heartbeatTimer = TRUE]

clearReconnectTimer(r) ==
    IF r.peer.reconnectTimer
    THEN [r EXCEPT !.peer.reconnects = IF r.peer.latestPending THEN @ - 1 ELSE @,
                   !.peer.latestPending = FALSE,
                   !.peer.reconnectTimer = FALSE]
    ELSE r

\* scheduleReconnect that does not clear the timer armed before
scheduleReconnectAgain(r) ==
    IF r.peer.shuttingDown THEN r
    ELSE [r EXCEPT !.peer.reconnectTimer = TRUE,
                   !.peer.latestPending = TRUE,
                   !.peer.reconnects = @ + 1]

scheduleReconnect(r) ==
    IF r.peer.shuttingDown THEN r
    ELSE [clearReconnectTimer(r) EXCEPT !.peer.reconnectTimer = TRUE,
                                        !.peer.latestPending = TRUE,
                                        !.peer.reconnects = @ + 1]

SuppressedOutbound == {"REGISTERED_PBX", "ERROR"}

\* the send of the synthetic connection's transport that suppresses nothing
syntheticSendAll(r, f) == transportSend(r, f)

\* transport.send of the synthetic connection
syntheticSend(r, f) ==
    IF f.type \in SuppressedOutbound THEN r ELSE transportSend(r, f)

\* transport.close of the synthetic connection
syntheticClose(r) ==
    IF r.peer.state \in {"open", "connecting"} THEN transportClose(r) ELSE r

\* The router's calls to the transports of the connections the peer has made,
\* from the i-th frame on
RECURSIVE SendEach(_, _, _)
SendEach(r, fs, i) ==
    IF i > Len(fs) THEN r
    ELSE SendEach(IF fs[i].dest \in r.peer.made THEN syntheticSend(r, fs[i]) ELSE r,
                  fs, i + 1)

\* what r has sent and closed since r0: the frames in the order sent, then the
\* close that disconnect ends with
deliverSince(r0, r) ==
    LET r1 == SendEach(r, r.sent, Len(r0.sent) + 1)
    IN IF \E i \in (Len(r0.closed) + 1)..Len(r.closed) : r.closed[i].dest \in r.peer.made
       THEN syntheticClose(r1)
       ELSE r1

deliver(r) == deliverSince([r EXCEPT !.sent = << >>, !.closed = << >>], r)

\* pruneStaleConnections with the transports of the peer's connections
RECURSIVE DisconnectStalePeer(_, _)
DisconnectStalePeer(r, cs) ==
    IF cs = {} THEN r
    ELSE LET c == CHOOSE x \in cs : \A y \in cs : x <= y
             stale == r.clock - r.conn[c].lastHeartbeat > r.options.heartbeatTimeoutMs
         IN DisconnectStalePeer(
                IF stale THEN deliverSince(r, disconnect(r, c, "timeout")) ELSE r,
                cs \ {c})

pruneStalePeer(r) == DisconnectStalePeer(r, r.bySession)

PeerFrame(type) == Frame(NoConn, type)

FreeConns(r) == {c \in Conns : r.sockets[c] = "unused"}

onOpen(r) ==
    LET c == CHOOSE x \in FreeConns(r) : \A y \in FreeConns(r) : x <= y
        r1 == clearReconnectTimer(r)
        r2 == createConnection([r1 EXCEPT !.sockets[c] = "peer",
                                          !.peer.made = @ \cup {c}], c)
        r3 == [r2 EXCEPT !.peer.connection = c]
        r4 == deliver(handleMessage(r3, c, Inbound("REGISTER_PBX", NoMeta)))
        r5 == transportSend(r4, PeerFrame("REGISTER_PBX"))
    IN [startHeartbeat(r5) EXCEPT !.peer.acked = FALSE, !.peer.unbroken = TRUE,
                                 !.peer.beat = FALSE]

IgnoredInbound == {"REGISTERED_PBX", "REGISTER_PBX_FAILED", "REGISTER_FAILED", "HEARTBEAT_ACK"}

\* data is text that JSON.parse accepts (parses, with the frame it yields) or not
onMessage(r, data) ==
    IF r.peer.connection = NoConn THEN r
    ELSE IF ~data.parses THEN r
    ELSE IF data.frame.type \in IgnoredInbound THEN r
    ELSE deliver(handleMessage(
             [r EXCEPT !.routed = Append(@, [ connection |-> r.peer.connection,
                                              message |-> data.frame ])],
             r.peer.connection, data.frame))

\* the peer drops its reference to the synthetic connection
dropConnection(r) ==
    IF r.peer.connection = NoConn THEN r
    ELSE [r EXCEPT !.sockets[r.peer.connection] = "closed", !.peer.connection = NoConn]

onClose(r, reason) ==
    LET r1 == clearHeartbeat(r)
        c == r1.peer.connection
        r2 == IF c # NoConn THEN deliver(disconnect(dropConnection(r1), c, reason))
              ELSE r1
    IN IF ~r2.peer.shuttingDown THEN scheduleReconnect(r2) ELSE r2

\* connect(): transport.connect up to its await
connect(r) == transportConnect(r)

\* the catch of connect(), run when the promise of transport.connect rejects
connectFailed(r) == scheduleReconnect(r)

start(r) == connect([r EXCEPT !.peer.shuttingDown = FALSE, !.peer.started = TRUE])

stop(r) ==
    LET r1 == clearReconnectTimer(clearHeartbeat([r EXCEPT !.peer.shuttingDown = TRUE]))
        c == r1.peer.connection
        r2 == IF c # NoConn THEN deliver(disconnect(dropConnection(r1), c, "shutdown"))
              ELSE r1
    IN IF r2.peer.state \notin {"closed", "closing"} THEN transportClose(r2) ELSE r2

\* ------------------------------------------------------- the socket's events
\* settle the promise of the connect() that made socket s, once
Settle(r, s) == [r EXCEPT !.peer.settled = @ \cup {s}]

\* socket 'open': handleOpen, which emits open, and resolve
handleOpen(r, s) ==
    Settle(onOpen([r EXCEPT !.peer.state = "open", !.peer.ws[s] = "open"]), s)

\* socket 'close': handleClose, which emits close, and reject if not settled
handleClose(r, s, reason) ==
    LET r1 == onClose([r EXCEPT !.peer.state = "closed", !.peer.socket = NoSocket,
                                !.peer.ws[s] = "closed"], reason)
    IN IF s \in r.peer.settled THEN r1 ELSE connectFailed(Settle(r1, s))

\* socket 'error' while connecting; the runtime closes the socket next
handleError(r, s) ==
    IF s \notin r.peer.settled /\ r.peer.state = "connecting"
    THEN connectFailed(Settle([r EXCEPT !.peer.state = "closed", !.peer.socket = NoSocket,
                                        !.peer.ws[s] = "failed"], s))
    ELSE [r EXCEPT !.peer.ws[s] = "failed"]

\* the connectTimeoutMs timer of connect()
connectTimeout(r, s) ==
    IF s \in r.peer.settled THEN r
    ELSE connectFailed(Settle([r EXCEPT !.peer.state = "closed", !.peer.socket = NoSocket,
                                        !.peer.ws[s] = IF @ = "failed" THEN @ ELSE "closing"],
                              s))

\* The state a handler of the peer leaves behind
CommitPeer(r) ==
    /\ CommitTables(r)
    /\ peer' = r.peer
    /\ UNCHANGED << concurrency, activeCallIds, broadcasts, sleepTimers, dialLog >>

\* ------------------------------------------------------------ the peer's run
\* federationManager.start(), once, when the server starts
Start ==
    /\ ~peer.started
    /\ CommitPeer(start(CurPeer))

\* federationManager.stop() on shutdown
Stop ==
    /\ peer.started
    /\ ~peer.shuttingDown
    /\ CommitPeer(stop(CurPeer))

SocketOpens(s) ==
    /\ peer.ws[s] = "connecting"
    /\ FreeConns(CurPeer) # {}
    /\ CommitPeer(handleOpen(CurPeer, s))

SocketErrors(s) ==
    /\ peer.ws[s] = "connecting"
    /\ CommitPeer(handleError(CurPeer, s))

\* the parent went away, or the close the transport asked for completed
SocketCloses(s) ==
    /\ peer.ws[s] \in {"connecting", "open", "closing", "failed"}
    /\ CommitPeer([handleClose(CurPeer, s, "peer_disconnected")
                      EXCEPT !.peer.beat = FALSE, !.peer.acked = FALSE,
                             !.peer.unbroken = FALSE])

\* the timer is cleared only where the promise is settled
ConnectTimeout(s) ==
    /\ peer.ws[s] \in {"connecting", "closing", "failed"}
    /\ s \notin peer.settled
    /\ CommitPeer(connectTimeout(CurPeer, s))

\* the reconnect setTimeout fires: connect()
ReconnectFires ==
    /\ peer.reconnects > 0
    /\ FreeSockets(CurPeer) # {} \/ peer.socket # NoSocket
    /\ CommitPeer(connect([CurPeer EXCEPT !.peer.reconnects = @ - 1,
                                          !.peer.latestPending = FALSE]))

\* the heartbeat setInterval fires
HeartbeatFires ==
    /\ peer.heartbeatTimer
    /\ ~peer.beat
    /\ LET r == transportSend(CurPeer, PeerFrame("HEARTBEAT"))
       IN CommitPeer([r EXCEPT !.peer.beat = r.written # << >>])

\* the parent answers the HEARTBEAT on the socket it came in on
PeerAck(s) ==
    /\ peer.ws[s] = "open"
    /\ peer.socket = s
    /\ peer.beat
    /\ CommitPeer([onMessage(CurPeer, [ parses |-> TRUE,
                                        frame |-> Inbound("HEARTBEAT_ACK", NoMeta) ])
                      EXCEPT !.peer.beat = FALSE, !.peer.acked = TRUE])

\* what the parent may send: text that does not parse, and frames
PeerData ==
    { [ parses |-> FALSE, frame |-> Inbound("-", NoMeta) ] } \cup
    { [ parses |-> TRUE, frame |-> m ] :
        m \in { Inbound(t, NoMeta) : t \in (IgnoredInbound \ {"HEARTBEAT_ACK"})
                                           \cup {"REGISTER_PBX", "HEARTBEAT"} }
              \cup { Inbound("REGISTER", RegisterMsg(A3, "undefined", NoHandler)),
                     Inbound("DIAL", DialMsg(A1, NoMeta)) }
              \cup { Inbound("ANSWER", AnswerMsg(id)) : id \in 1..MaxCalls } }

PeerMessage(s, data) ==
    /\ peer.ws[s] = "open"
    /\ data.frame.type = "DIAL" => nextCallId <= MaxCalls
    /\ CommitPeer(onMessage(CurPeer, data))

\* setInterval(() => router.pruneStaleConnections(), ...)
PrunePeer ==
    /\ options.heartbeatTimeoutMs > 0
    /\ CommitPeer(pruneStalePeer(CurPeer))

TickPeer ==
    /\ clock < MaxTime
    /\ CommitPeer([CurPeer EXCEPT !.clock = @ + 1,
                                  !.peer.unbroken = @ /\ peer.acked,
                                  !.peer.acked = FALSE])

InitFederation == InitWith([ heartbeatTimeoutMs |-> 1, dialMaxAttempts |-> 0, dialWindowMs |-> 0 ])

\* One parent link and local clients that register A1 and call A3
NextFederation ==
    \/ Start
    \/ Stop
    \/ \E s \in PeerSockets : SocketOpens(s)
    \/ \E s \in PeerSockets : SocketErrors(s)
    \/ \E s \in PeerSockets : SocketCloses(s)
    \/ \E s \in PeerSockets : ConnectTimeout(s)
    \/ ReconnectFires
    \/ HeartbeatFires
    \/ \E s \in PeerSockets : PeerAck(s)
    \/ \E s \in PeerSockets : \E data \in PeerData : PeerMessage(s, data)
    \/ PrunePeer
    \/ TickPeer
    \/ \E c \in Conns : Open(c)
    \/ \E c \in Conns : Register(c, A1, "undefined", NoHandler)
    \/ \E c \in Conns : Dial(c, A3)
    \/ \E c \in Conns : SocketClose(c)
    \/ \E id \in 1..MaxCalls : RingTimeout(id)

SpecFederation == InitFederation /\ [][NextFederation]_vars


\* ---------------------------------------------------------------- C31
\* the transport can write: send does not throw
CanSend(r) == r.peer.socket # NoSocket /\ r.peer.state = "open"

\* the frames the router has sent to connections of the peer, in order
ToPeer(r) == SelectSeq(r.sent, LAMBDA f : f.dest \in r.peer.made)

Forwarded(r) == SelectSeq(ToPeer(r), LAMBDA f : f.type \notin SuppressedOutbound)

\* what the router does, before its frames reach a transport, in every event
\* of the local clients, of the timers and of the parent's frames
RouterEvents ==
    { handleRegister(CurPeer, c, RegisterMsg(A1, "undefined", NoHandler)) : c \in OpenConns }
    \cup { handleDial(CurPeer, c, DialMsg(A3, DialMetadata(c))) :
             c \in {x \in OpenConns : nextCallId <= MaxCalls} }
    \cup { disconnect([CurPeer EXCEPT !.sockets[c] = "closed"], c, "peer_disconnected") :
             c \in OpenConns }
    \cup { handleCallTimeout([CurPeer EXCEPT !.ringTimeouts = @ \ {id}], id) :
             id \in ringTimeouts }
    \cup { handleMessage(CurPeer, peer.connection, d.frame) :
             d \in {x \in PeerData : /\ peer.connection # NoConn
                                     /\ x.parses
                                     /\ x.frame.type \notin IgnoredInbound
                                     /\ x.frame.type = "DIAL" => nextCallId <= MaxCalls} }

InboundData == PeerData \cup {[ parses |-> TRUE, frame |-> Inbound("HEARTBEAT_ACK", NoMeta) ]}

PassedOn(data) == << [ connection |-> peer.connection, message |-> data.frame ] >>

\* C31 as stated: of the frames the router sends to the synthetic connection
\* exactly those that are neither REGISTERED_PBX nor ERROR are written to the
\* socket, and of the data that arrives on the socket exactly the parsed frames
\* that are none of the four ignored types are passed to the router
C31_EveryOtherFrameCrosses ==
    /\ \A r \in RouterEvents : deliver(r).written = Forwarded(r)
    /\ \A s \in PeerSockets : \A data \in InboundData :
          peer.ws[s] = "open" =>
             onMessage(CurPeer, data).routed =
                IF data.parses /\ data.frame.type \notin IgnoredInbound
                THEN PassedOn(data) ELSE << >>

SocketClosed == \E s \in PeerSockets : peer.ws[s] # "closed" /\ peer'.ws[s] = "closed"

\* a connect attempt starts in this step: the transport makes a socket
ConnectStarted == \E s \in PeerSockets : peer.ws[s] = "none" /\ peer'.ws[s] # "none"

InRegistry(c) ==
    \/ c \in connectionsBySession
    \/ \E a \in DOMAIN connectionsByAddress : connectionsByAddress[a] = c

\* C32: a step in which a socket of the peer closes while the peer is not
\* shutting down leaves the synthetic connection out of the router's registry,
\* the peer without it, no heartbeat timer and exactly one reconnect timer
\* pending; once stop() has run the peer stays shut down, no reconnect timer is
\* pending after any later step and no later step starts a connect attempt
C32_CloseReconnectsStopDoesNot ==
    [][ /\ SocketClosed /\ ~peer.shuttingDown =>
             /\ peer'.connection = NoConn
             /\ peer.connection # NoConn => ~InRegistry(peer.connection)'
             /\ ~peer'.heartbeatTimer
             /\ peer'.reconnects = 1
             /\ peer'.reconnectTimer /\ peer'.latestPending
        /\ peer.shuttingDown =>
             /\ peer'.shuttingDown
             /\ peer'.reconnects = 0
             /\ ~ConnectStarted ]_vars

\* stop() has run while the second socket, made by the reconnect that the close
\* of the first one scheduled, has its close or its failed connect still to come
C32_Witness ==
    /\ peer.shuttingDown
    /\ peer.ws[1] = "closed"
    /\ 1 \in peer.settled
    /\ peer.made # {}
    /\ peer.ws[2] \in {"closing", "failed"}
    /\ peer.reconnects = 0


\* ---------------------------------------------------------------- C40
\* C40: while the peer's socket is open and, since it opened, no unit of time
\* has passed without a HEARTBEAT_ACK of the parent for a HEARTBEAT of the
\* peer, the heartbeat sweeper leaves the synthetic connection registered and
\* the transport open
C40_LinkSurvivesSweep ==
    ( /\ peer.connection # NoConn
      /\ peer.connection \in connectionsBySession
      /\ CanSend(CurPeer)
      /\ peer.ws[peer.socket] = "open"
      /\ peer.heartbeatTimer
      /\ peer.unbroken
      /\ peer.acked )
    => LET r == pruneStalePeer(CurPeer)
       IN /\ peer.connection \in r.bySession
          /\ \A i \in 1..Len(r.closed) : r.closed[i].dest # peer.connection
          /\ r.peer.state = "open"

====
